---------------------------- MODULE Spec2Model ----------------------------
(***************************************************************************)
(* Authorization core of openedx-authz: the key classifier and the         *)
(* type-wide wildcard matcher of engine/enforcer.py, the policy tuples     *)
(* installed by apps.py and by the enforcement tests, the enforcement      *)
(* decision (role graph, action hierarchy, scope hierarchy, deny           *)
(* override), the filtered load of engine/adapter.py, the load_policy      *)
(* command on the store-backed enforcer with its invalidation channel,     *)
(* the enforcement command, the user lookup of rest_api/utils.py and the   *)
(* custom conditions of engine/matcher.py.                                 *)
(*                                                                         *)
(* Specifications:                                                         *)
(*   Spec         an enforcer without adapter, as the enforcement tests    *)
(*                build it: rules, grants, edges, enforce                  *)
(*   SpecMatch    classify and type_match on bounded inputs                *)
(*   SpecScoped   tests.py: enforce with a fourth parameter                *)
(*   SpecCycles   enforce on graphs with self-loops and cycles             *)
(*   SpecParse    _parse_policy_file on bounded files                      *)
(*   SpecFilter   filter_query on bounded tables and filters               *)
(*   SpecStore    the load_policy command, reloads and enforce calls       *)
(*   SpecChannel  writes, invalidation messages and a peer process         *)
(*   SpecRequests the enforcement command: request files and prompt inputs *)
(*   SpecWrite    auto-saving writes and clear_policy on a loaded enforcer *)
(*   SpecLookup   get_user_by_username_or_email, per thread, on a changing *)
(*                user table                                               *)
(*   SpecConditions check_custom_conditions on bounded users and scopes    *)
(*   SpecEdges    enforce on the policy apps.py installs                   *)
(*                                                                         *)
(* Strings.  A Python str is modelled as a finite sequence of tokens: each  *)
(* separator character (":", "-", "*", "+", "(", ")", "|", ",", "#" and    *)
(* the blank) is a token of its own and every other token is a run of      *)
(* non-separator characters.  The named keys below are written as their    *)
(* lexing into separators and maximal runs; the exhaustive inputs of the   *)
(* pure-function harnesses are all sequences over an alphabet in which no  *)
(* token is a prefix of another.  Either way a sequence denotes exactly    *)
(* one string, and str.startswith / str.endswith / str.split / str.strip   *)
(* on the literals the code uses ("course-", "course:", ":*", ":", ",",    *)
(* "#") are computed token by token exactly as the code computes them      *)
(* character by character.                                                 *)
(***************************************************************************)
EXTENDS Naturals, Sequences, FiniteSets, TLC

VARIABLES
    p,        \* in-memory rules of the enforcer of this process: set of tuples
              \* (v0, v1, v2, v3)
    g,        \* in-memory role grants: set of tuples (subject, role[, scope])
    g2,       \* in-memory hierarchy edges, relation "g2": set of pairs
    req,      \* the last enforce request made on the current policy:
              \* <<subject, action, object>>, or <<>> when there is none
    res,      \* its result <<TRUE>> or <<FALSE>>, or <<>> when there is none
    m_in,     \* pure-function harness: the call, a record [fn, ...arguments]
    m_ret,    \* pure-function harness: <<value returned>>, or <<>> before the call
    db,       \* Policy Store: the rows of table CasbinRule in id order, each
              \* row the sequence <<ptype, v0, v1, ...>> of its non-null columns
    peer,     \* the in-memory policy [p, g, g2] of a second process that
              \* shares the store and subscribes to the invalidation channel
    chan,     \* invalidation channel: number of messages published and not
              \* yet delivered to the peer
    cmd,      \* the load_policy command in progress: a record with its
              \* position pc, its options and its parsed policies
    loaded,   \* the reloads made in a row on an unchanged store: <<>>, or the
              \* record [how, times, first] of the kind of load, the number
              \* of loads and the memory the first of them produced
    users,    \* table of the user model: a set of rows [username, email,
              \* retired, is_staff, is_superuser, creator]
    scopes,   \* the objects behind the scope keys: a set of rows
              \* [key, allow_public_read]
    settings, \* Django settings and installed apps read by the matcher:
              \* [SERVICE_VARIANT, course_creators]
    cache,    \* _user_cache_local.data of each thread: a function from the
              \* keys looked up to the user found or NoneValue
    lookups   \* what the callers of each thread have seen: a function from
              \* <<thread, key>> to [first, calls], the outcome of the first
              \* lookup and the number of lookups

policyVars == <<p, g, g2>>
callVars == <<req, res>>
matchVars == <<m_in, m_ret>>
storeVars == <<db, peer, chan, cmd, loaded>>
userVars == <<users, scopes, settings, cache, lookups>>
vars == <<p, g, g2, req, res, m_in, m_ret, db, peer, chan, cmd, loaded,
          users, scopes, settings, cache, lookups>>

---------------------------------------------------------------------------
(* Python str operations on token sequences                                *)

\* str.startswith(prefix)
StartsWith(s, prefix) ==
    /\ Len(s) >= Len(prefix)
    /\ SubSeq(s, 1, Len(prefix)) = prefix

\* str.endswith(suffix)
EndsWith(s, suffix) ==
    /\ Len(s) >= Len(suffix)
    /\ SubSeq(s, Len(s) - Len(suffix) + 1, Len(s)) = suffix

\* s.split(":")[0]: the part of s before its first ":" (all of s if none)
SplitFirst(s) ==
    LET colons == {i \in 1..Len(s) : s[i] = ":"}
    IN  IF colons = {} THEN s
        ELSE SubSeq(s, 1, (CHOOSE i \in colons : \A j \in colons : i <= j) - 1)

\* Python's None: a value equal to no str
None == <<"<None>">>

---------------------------------------------------------------------------
(* engine/enforcer.py                                                      *)

\* classify with the "<type>-" prefixes forgotten
classify_no_dash(obj) ==
    IF StartsWith(obj, <<"course", ":">>) THEN <<"course">>
    ELSE IF StartsWith(obj, <<"lib", ":">>) THEN <<"lib">>
    ELSE IF StartsWith(obj, <<"report", ":">>) THEN <<"report">>
    ELSE IF StartsWith(obj, <<"asset", ":">>) THEN <<"asset">>
    ELSE None

\* classify(obj): raw id -> type, by prefix
classify(obj) ==
    IF StartsWith(obj, <<"course", "-">>) \/ StartsWith(obj, <<"course", ":">>)
        THEN <<"course">>
    ELSE IF StartsWith(obj, <<"lib", "-">>) \/ StartsWith(obj, <<"lib", ":">>)
        THEN <<"lib">>
    ELSE IF StartsWith(obj, <<"report", "-">>) \/ StartsWith(obj, <<"report", ":">>)
        THEN <<"report">>
    ELSE IF StartsWith(obj, <<"asset", "-">>) \/ StartsWith(obj, <<"asset", ":">>)
        THEN <<"asset">>
    ELSE None

\* type_match(obj, policy_obj)
type_match(obj, policy_obj) ==
    IF EndsWith(policy_obj, <<":", "*">>)
        THEN classify(obj) = SplitFirst(policy_obj)
        ELSE FALSE

---------------------------------------------------------------------------
(* Keys used by the code and its tests                                     *)

Star == <<"*">>
Allow == <<"allow">>
Deny == <<"deny">>

\* apps.py
UserMaria == <<"user", ":", "maria">>
UserBob == <<"user", ":", "bob">>
RoleAdmin == <<"role", ":", "admin">>
RoleEditor == <<"role", ":", "editor">>
OrgDemoX == <<"org", ":", "DemoX">>
OrgOpenedX == <<"org", ":", "OpenedX">>
CourseStar == <<"course", ":", "*">>
Report123 == <<"report", "-", "123">>
CourseDemo == <<"course", "-", "v1", ":", "OpenedX", "+", "DemoX", "+", "DemoCourse">>
CourseColonCourseDemo == <<"course", ":">> \o CourseDemo
LibDemoX == <<"lib", ":", "OpenedX", ":", "DemoX">>
Asset9 == <<"asset", "-", "9">>
Read == <<"read">>
Delete == <<"delete">>
ReadWriteDelete == <<"(", "read", ")", "|", "(", "write", ")", "|", "(", "delete", ")">>

\* tests/test_enforcement.py
User1 == <<"user", ":", "user", "-", "1">>
User2 == <<"user", ":", "user", "-", "2">>
User3 == <<"user", ":", "user", "-", "3">>
User4 == <<"user", ":", "user", "-", "4">>
RolePlatformAdmin == <<"role", ":", "platform_admin">>
RoleOrgAdmin == <<"role", ":", "org_admin">>
RoleCourseAdmin == <<"role", ":", "course_admin">>
RoleLibraryAdmin == <<"role", ":", "library_admin">>
RoleRole1 == <<"role", ":", "role", "-", "1">>
ActManage == <<"act", ":", "manage">>
ActEdit == <<"act", ":", "edit">>
ActRead == <<"act", ":", "read">>
ActWrite == <<"act", ":", "write">>
ActDelete == <<"act", ":", "delete">>
OrgAnyOrg == <<"org", ":", "any", "-", "org">>
OrgAllowedOrg == <<"org", ":", "allowed", "-", "org">>
OrgRestrictedOrg == <<"org", ":", "restricted", "-", "org">>
OrgMIT == <<"org", ":", "MIT">>
OrgStar == <<"org", ":", "*">>
CourseV1Star == <<"course", "-", "v1", ":", "*">>
LibStar == <<"lib", ":", "*">>
CourseCS101 == <<"course", "-", "v1", ":", "OpenedX", "+", "DemoX", "+", "CS101">>
LibMathBasics == <<"lib", ":", "math", "-", "basics">>

\* Ids and patterns the documentation and the tests name.
CourseOrgCourseRun == <<"course", "-", "v1", ":", "Org", "+", "Course", "+", "Run">>
RandomIdWithoutPrefix == <<"random", "-", "id", "-", "without", "-", "prefix">>
LibAStar == <<"lib", ":", "a", ":", "*">>

---------------------------------------------------------------------------
(* The enforcement decision.  The matcher and effect expressions live in   *)
(* model.conf, which is not among the sources; they are modelled from the  *)
(* specification (sections 4.2 to 4.5).                                    *)

\* A search that gives up as soon as an edge leads back to a visited node
RECURSIVE ExpandStopAtCycle(_, _)
ExpandStopAtCycle(edges, visited) ==
    LET found == {e[2] : e \in {d \in edges : d[1] \in visited}}
    IN  IF found \cap visited # {} \/ found = {} THEN visited
        ELSE ExpandStopAtCycle(edges, visited \cup found)

\* Visited-set search: the nodes reachable from `visited` along `edges`
\* (pairs <<from, to>>), `visited` included.  Terminates on cycles: it stops
\* as soon as a round discovers no new node.
RECURSIVE Expand(_, _)
Expand(edges, visited) ==
    LET next == visited \cup {e[2] : e \in {d \in edges : d[1] \in visited}}
    IN  IF next = visited THEN visited ELSE Expand(edges, next)

\* The nodes reachable from `start` over one or more edges.
Successors(edges, start) ==
    Expand(edges, {e[2] : e \in {d \in edges : d[1] = start}})

\* The scope a grant is recorded for; a grant stored without a scope column
\* is global.
GrantScope(gr) == IF Len(gr) >= 3 THEN gr[3] ELSE Star

\* hasRole with the recorded scope of the grants ignored
HasRoleAnyScope(G, subject, role, scope) ==
    role \in Successors({<<gr[1], gr[2]>> : gr \in G}, subject)

\* 4.2  hasRole(subject, role, scope): a chain of grants, each recorded for
\* "*" or for exactly `scope`.
HasRole(G, subject, role, scope) ==
    LET usable == {gr \in G : GrantScope(gr) = Star \/ GrantScope(gr) = scope}
    IN  role \in Successors({<<gr[1], gr[2]>> : gr \in usable}, subject)

\* 4.3  actionReaches(granted, requested)
\* actionReaches following one edge only
ActionReachesOneHop(G2, granted, requested) ==
    \/ granted = requested
    \/ \E e \in G2 : e[1] = granted /\ e[2] = requested

\* actionReaches following edges in both directions
ActionReachesBackward(G2, granted, requested) ==
    \/ granted = requested
    \/ requested \in Successors({<<e[1], e[2]>> : e \in G2}, granted)
    \/ granted \in Successors({<<e[1], e[2]>> : e \in G2}, requested)

ActionReaches(G2, granted, requested) ==
    \/ granted = requested
    \/ requested \in Successors({<<e[1], e[2]>> : e \in G2}, granted)

\* 4.4  scopeReaches(ancestorPattern, object)
\* scopeReaches following one containment edge only
ScopeReachesOneHop(G2, ancestorPattern, object) ==
    \/ ancestorPattern = object
    \/ ancestorPattern = Star
    \/ type_match(object, ancestorPattern)
    \/ \E e \in G2 : e[1] = object /\ e[2] = ancestorPattern

\* scopeReaches without the universal wildcard
ScopeReachesNoWildcard(G2, ancestorPattern, object) ==
    \/ ancestorPattern = object
    \/ type_match(object, ancestorPattern)
    \/ ancestorPattern \in Successors({<<e[1], e[2]>> : e \in G2}, object)

ScopeReaches(G2, ancestorPattern, object) ==
    \/ ancestorPattern = object
    \/ ancestorPattern = Star
    \/ type_match(object, ancestorPattern)
    \/ ancestorPattern \in Successors({<<e[1], e[2]>> : e \in G2}, object)

\* 4.5 step 1: the subject itself plus every role it holds within a grant
\* scope that applies to the requested object.
SubjectEquivalents(G, G2, subject, object) ==
    {subject} \cup
    {r \in {gr[2] : gr \in G} :
        \E s \in {GrantScope(gr) : gr \in G} :
            ScopeReaches(G2, s, object) /\ HasRole(G, subject, r, s)}

\* 4.5 step 2: the rule is a candidate for the request, given the
\* subject-equivalents of step 1.
IsCandidate(equivalents, G2, rule, action, object) ==
    /\ \/ rule[1] = Star
       \/ rule[1] \in equivalents
    /\ ActionReaches(G2, rule[2], action)
    /\ ScopeReaches(G2, rule[3], object)

Candidates(P, G, G2, subject, action, object) ==
    LET equivalents == SubjectEquivalents(G, G2, subject, object)
    IN  {rule \in P : IsCandidate(equivalents, G2, rule, action, object)}

\* 4.5 steps 3 and 4: deny override, default deny.
\* the decision with allow overriding deny
DecideAllowOverride(candidates) ==
    \E rule \in candidates : rule[4] = Allow

\* the decision with default allow
DecideDefaultAllow(candidates) ==
    IF \E rule \in candidates : rule[4] = Deny THEN FALSE
    ELSE TRUE

Decide(candidates) ==
    IF \E rule \in candidates : rule[4] = Deny THEN FALSE
    ELSE IF \E rule \in candidates : rule[4] = Allow THEN TRUE
    ELSE FALSE

\* enforce(subject, action, object)
enforce(P, G, G2, subject, action, object) ==
    Decide(Candidates(P, G, G2, subject, action, object))

---------------------------------------------------------------------------
(* Policies of tests/test_enforcement.py, as the lists the tests pass      *)

PtypeP == <<"p">>
PtypeG == <<"g">>
PtypeG2 == <<"g2">>

COMMON_ACTION_GROUPING == <<
    <<PtypeG2, ActManage, ActEdit>>,
    <<PtypeG2, ActManage, ActRead>>,
    <<PtypeG2, ActManage, ActWrite>>,
    <<PtypeG2, ActManage, ActDelete>>,
    <<PtypeG2, ActEdit, ActRead>>,
    <<PtypeG2, ActEdit, ActWrite>>,
    <<PtypeG2, ActEdit, ActRead>>,
    <<PtypeG2, ActEdit, ActWrite>> >>

SystemWidePolicy == <<
    <<PtypeP, RolePlatformAdmin, ActManage, Star, Allow>>,
    <<PtypeG, User1, RolePlatformAdmin>> >> \o COMMON_ACTION_GROUPING

ActionGroupingPolicy == <<
    <<PtypeP, RoleRole1, ActManage, OrgAnyOrg, Allow>>,
    <<PtypeG, User1, RoleRole1>> >> \o COMMON_ACTION_GROUPING

DeniedAccessPolicy == <<
    <<PtypeP, RolePlatformAdmin, ActManage, Star, Allow>>,
    <<PtypeP, RolePlatformAdmin, ActManage, OrgRestrictedOrg, Deny>>,
    <<PtypeG, User1, RolePlatformAdmin>> >> \o COMMON_ACTION_GROUPING

WildcardScopePolicy == <<
    <<PtypeP, RolePlatformAdmin, ActManage, Star, Allow>>,
    <<PtypeP, RoleOrgAdmin, ActManage, OrgStar, Allow>>,
    <<PtypeP, RoleCourseAdmin, ActManage, CourseV1Star, Allow>>,
    <<PtypeP, RoleLibraryAdmin, ActManage, LibStar, Allow>>,
    <<PtypeG, User1, RolePlatformAdmin>>,
    <<PtypeG, User2, RoleOrgAdmin>>,
    <<PtypeG, User3, RoleCourseAdmin>>,
    <<PtypeG, User4, RoleLibraryAdmin>> >> \o COMMON_ACTION_GROUPING

\* One test case: the policy loaded, the request, the result the test expects.
Case(policy, subject, action, scope, expected) ==
    [policy |-> policy, request |-> <<subject, action, scope>>, expected |-> expected]

WildcardScopes == {Star, OrgMIT, CourseCS101, LibMathBasics}

\* SystemWideRoleTests.GENERAL_CASES
SystemWideCases ==
    {Case(SystemWidePolicy, User1, ActManage, s, TRUE) :
        s \in {Star, OrgAnyOrg, CourseCS101, LibMathBasics}}

\* ActionGroupingTests.CASES
ActionGroupingCases ==
    {Case(ActionGroupingPolicy, User1, a, OrgAnyOrg, TRUE) :
        a \in {ActEdit, ActRead, ActWrite, ActDelete}}

\* DeniedAccessTests.CASES
DeniedAccessCases ==
    {Case(DeniedAccessPolicy, User1, ActManage, OrgAllowedOrg, TRUE)} \cup
    {Case(DeniedAccessPolicy, User1, a, OrgRestrictedOrg, FALSE) :
        a \in {ActManage, ActEdit, ActRead, ActWrite, ActDelete}}

\* WildcardScopeTests: the four data-driven tests
WildcardScopeCases ==
    {Case(WildcardScopePolicy, User1, ActManage, s, TRUE) : s \in WildcardScopes} \cup
    {Case(WildcardScopePolicy, User2, ActManage, s, s = OrgMIT) : s \in WildcardScopes} \cup
    {Case(WildcardScopePolicy, User3, ActManage, s, s = CourseCS101) : s \in WildcardScopes} \cup
    {Case(WildcardScopePolicy, User4, ActManage, s, s = LibMathBasics) : s \in WildcardScopes}

TestCases ==
    SystemWideCases \cup ActionGroupingCases \cup DeniedAccessCases \cup WildcardScopeCases

---------------------------------------------------------------------------
(* Bounds and input sets of the enforcer specification                     *)

MaxRules == 2
MaxGrants == 2
MaxEdges == 2

RuleCandidates ==
    {<<RoleEditor, a, s, e>> :
        a \in {ActManage, ActRead}, s \in {Star, LibStar, OrgOpenedX}, e \in {Allow, Deny}}

GrantCandidates ==
    { <<UserBob, RoleEditor, OrgOpenedX>>,
      <<UserBob, RoleAdmin, Star>>,
      <<RoleAdmin, RoleEditor, Star>> }

EdgeCandidates ==
    { <<ActManage, ActEdit>>, <<ActEdit, ActRead>>,
      <<Asset9, LibDemoX>>, <<LibDemoX, OrgOpenedX>> }

Requests ==
    ({UserBob} \X {ActManage, ActEdit, ActRead} \X {OrgOpenedX, LibDemoX, Asset9, Star})
    \cup { <<UserBob, ActRead, RandomIdWithoutPrefix>>,
           <<UserBob, Read, CourseDemo>>,
           <<UserMaria, Read, Report123>>,
           <<UserMaria, Delete, Report123>> }

---------------------------------------------------------------------------
(* Operations on the enforcer                                              *)

Range(seq) == {seq[i] : i \in 1..Len(seq)}

\* No command is running.
Idle == [pc |-> "idle"]

\* An empty store, a peer that has loaded it, nothing published, no command.
InitStore ==
    /\ db = <<>>
    /\ peer = [p |-> {}, g |-> {}, g2 |-> {}]
    /\ chan = 0
    /\ cmd = Idle
    /\ loaded = <<>>

\* The threads of the process that look users up.
Threads == {1, 2}

\* No user, no scope object, the LMS settings; no thread has looked a user up.
InitUsers ==
    /\ users = {}
    /\ scopes = {}
    /\ settings = [SERVICE_VARIANT |-> "lms", course_creators |-> FALSE]
    /\ cache = [t \in Threads |-> <<>>]
    /\ lookups = <<>>

\* Init: a freshly constructed enforcer with an empty policy.
Init ==
    /\ p = {}
    /\ g = {}
    /\ g2 = {}
    /\ req = <<>>
    /\ res = <<>>
    /\ m_in = [fn |-> "none", obj |-> <<>>, pat |-> <<>>]
    /\ m_ret = <<>>
    /\ InitStore
    /\ InitUsers

\* enforcer.add_policy(sub, act, scope, eft): adds the rule unless present.
add_policy(rule) ==
    /\ req = <<>>
    /\ rule \notin p
    /\ Cardinality(p) < MaxRules
    /\ p' = p \cup {rule}
    /\ UNCHANGED <<g, g2, callVars, matchVars, storeVars, userVars>>

\* enforcer.add_named_grouping_policy("g", [subject, role, scope])
add_grouping_policy(grant) ==
    /\ req = <<>>
    /\ grant \notin g
    /\ Cardinality(g) < MaxGrants
    /\ g' = g \cup {grant}
    /\ UNCHANGED <<p, g2, callVars, matchVars, storeVars, userVars>>

\* enforcer.add_named_grouping_policy("g2", [from, to])
add_named_grouping_policy_g2(edge) ==
    /\ req = <<>>
    /\ edge \notin g2
    /\ Cardinality(g2) < MaxEdges
    /\ g2' = g2 \cup {edge}
    /\ UNCHANGED <<p, g, callVars, matchVars, storeVars, userVars>>

\* enforcer.clear_policy()
clear_policy ==
    /\ req = <<>>
    /\ p' = {} /\ g' = {} /\ g2' = {}
    /\ UNCHANGED <<callVars, matchVars, storeVars, userVars>>

\* OpenedxAuthzConfig.ready(): the tuples installed at application start, in the
\* argument order of the calls.
ReadyRules ==
    { <<RoleAdmin, OrgDemoX, ReadWriteDelete, Allow>>,
      <<RoleEditor, CourseStar, Read, Allow>>,
      <<RoleAdmin, Report123, Delete, Deny>> }

ReadyGrants ==
    { <<UserMaria, RoleAdmin, Star>>,
      <<UserBob, RoleEditor, OrgOpenedX>> }

ReadyEdges ==
    { <<CourseDemo, OrgOpenedX>>,
      <<Report123, CourseColonCourseDemo>>,
      <<LibDemoX, OrgOpenedX>>,
      <<Asset9, LibDemoX>> }

ready ==
    /\ req = <<>>
    /\ p' = p \cup ReadyRules
    /\ g' = g \cup ReadyGrants
    /\ g2' = g2 \cup ReadyEdges
    /\ UNCHANGED <<callVars, matchVars, storeVars, userVars>>

\* CasbinEnforcementTestCase._load_policy(policy): the three relations after
\* clear_policy() and one add per rule of the list.
LoadedRules(policy) == {Tail(r) : r \in {x \in Range(policy) : x[1] = PtypeP}}
LoadedGrants(policy) == {Tail(r) : r \in {x \in Range(policy) : x[1] = PtypeG}}
LoadedEdges(policy) == {Tail(r) : r \in {x \in Range(policy) : x[1] = PtypeG2}}

\* CasbinEnforcementTestCase._test_enforcement(policy, request)
\* The test enforcer is built empty by setUpClass and _load_policy clears it
\* before adding, so the outcome is the same from every policy; the step is
\* taken from the empty one.
test_enforcement(case) ==
    /\ req = <<>>
    /\ p = {} /\ g = {} /\ g2 = {}
    /\ p' = LoadedRules(case.policy)
    /\ g' = LoadedGrants(case.policy)
    /\ g2' = LoadedEdges(case.policy)
    /\ req' = case.request
    /\ res' = <<enforce(p', g', g2', case.request[1], case.request[2], case.request[3])>>
    /\ UNCHANGED <<matchVars, storeVars, userVars>>

\* enforce keeping each authorization it gives as a rule of its own
EnforceMemoizing(request) ==
    /\ req = <<>>
    /\ req' = request
    /\ res' = <<enforce(p, g, g2, request[1], request[2], request[3])>>
    /\ p' = IF res'[1] THEN p \cup {<<request[1], request[2], request[3], Allow>>} ELSE p
    /\ UNCHANGED <<g, g2, matchVars, storeVars, userVars>>

\* enforcer.enforce(subject, action, object) on the current policy
Enforce(request) ==
    /\ req = <<>>
    /\ req' = request
    /\ res' = <<enforce(p, g, g2, request[1], request[2], request[3])>>
    /\ UNCHANGED <<policyVars, matchVars, storeVars, userVars>>

\* The caller takes the result of the call; enforce is synchronous, so the
\* policy is not touched between the call and its return.
Return ==
    /\ req # <<>>
    /\ req' = <<>> /\ res' = <<>>
    /\ UNCHANGED <<policyVars, matchVars, storeVars, userVars>>

Next ==
    \/ \E rule \in RuleCandidates : add_policy(rule)
    \/ \E grant \in GrantCandidates : add_grouping_policy(grant)
    \/ \E edge \in EdgeCandidates : add_named_grouping_policy_g2(edge)
    \/ clear_policy
    \/ ready
    \/ \E case \in TestCases : test_enforcement(case)
    \/ \E request \in Requests : Enforce(request)
    \/ Return

Spec == Init /\ [][Next]_vars

---------------------------------------------------------------------------
(* Pure-function harness: classify and type_match on bounded inputs        *)

MaxObjLen == 2
MaxPatLen == 3

ObjTokens == {"course", "lib", "report", "asset", "org", "x", "-", ":", "*"}
PatTokens == {"course", "lib", "x", ":", "*"}

SeqsUpTo(tokens, n) == UNION {[1..k -> tokens] : k \in 0..n}

NamedObjects ==
    {CourseOrgCourseRun, RandomIdWithoutPrefix, CourseCS101, LibMathBasics, OrgMIT,
     Report123, Asset9}

NamedPatterns == {LibStar, CourseStar, OrgStar, CourseV1Star, LibAStar, LibMathBasics}

\* Every object id of at most MaxObjLen tokens, and the named ones.
ObjStrings == SeqsUpTo(ObjTokens, MaxObjLen) \cup NamedObjects

\* Every pattern of at most MaxPatLen tokens, and each of them followed by ":*".
\* and the named ones.
PatStrings ==
    LET short == SeqsUpTo(PatTokens, MaxPatLen)
    IN  short \cup {s \o <<":", "*">> : s \in short} \cup NamedPatterns

InitMatch ==
    /\ p = {} /\ g = {} /\ g2 = {}
    /\ req = <<>> /\ res = <<>>
    /\ \E o \in ObjStrings :
          \/ m_in = [fn |-> "classify", obj |-> o, pat |-> <<>>]
          \/ \E t \in PatStrings : m_in = [fn |-> "type_match", obj |-> o, pat |-> t]
    /\ m_ret = <<>>
    /\ InitStore
    /\ InitUsers

call_classify ==
    /\ m_in.fn = "classify"
    /\ m_ret = <<>>
    /\ m_ret' = <<classify(m_in.obj)>>
    /\ UNCHANGED <<policyVars, callVars, m_in, storeVars, userVars>>

call_type_match ==
    /\ m_in.fn = "type_match"
    /\ m_ret = <<>>
    /\ m_ret' = <<type_match(m_in.obj, m_in.pat)>>
    /\ UNCHANGED <<policyVars, callVars, m_in, storeVars, userVars>>

NextMatch == call_classify \/ call_type_match

SpecMatch == InitMatch /\ [][NextMatch]_vars

---------------------------------------------------------------------------
(* Properties                                                              *)

\* A call of enforce has returned and its result is held.
Called == req # <<>> /\ res # <<>>

\* The subject-equivalents of the request held.
ReqEquivalents == SubjectEquivalents(g, g2, req[1], req[3])

\* The rule's subject pattern covers the subject of the request held.
SubjectMatches(rule) == rule[1] = Star \/ rule[1] \in ReqEquivalents

\* A chain of one or more distinct edges of E leads from a to b.
RECURSIVE PathExists(_, _, _)
PathExists(E, a, b) ==
    \E e \in E : e[1] = a /\ (e[2] = b \/ PathExists(E \ {e}, e[2], b))

\* The rule matches the request held, hierarchy chains followed explicitly.
Matches(rule) ==
    /\ SubjectMatches(rule)
    /\ rule[2] = req[2] \/ PathExists(g2, rule[2], req[2])
    /\ \/ rule[3] = req[3]
       \/ rule[3] = Star
       \/ type_match(req[3], rule[3])
       \/ PathExists(g2, req[3], rule[3])

\* The test case has been run: its policy is loaded and its request answered.
CaseHeld(case) ==
    /\ Called
    /\ req = case.request
    /\ p = LoadedRules(case.policy)
    /\ g = LoadedGrants(case.policy)
    /\ g2 = LoadedEdges(case.policy)

\* Every case of the set that has been run returned what its test expects.
AsExpected(cases) == \A case \in cases : CaseHeld(case) => res[1] = case.expected

SomeDenyMatches == \E rule \in p : rule[4] = Deny /\ Matches(rule)
SomeAllowMatches == \E rule \in p : rule[4] = Allow /\ Matches(rule)

\* C1: whenever some rule matching the request has effect deny, enforce
\* returns false, whatever matching allow rules exist; a deny on a broader
\* action denies the actions it implies, as DeniedAccessTests expects.
C1_DenyOverride ==
    /\ (Called /\ SomeDenyMatches) => res[1] = FALSE
    /\ AsExpected(DeniedAccessCases)

\* C1 witness: DeniedAccessTests, act:read on the restricted org: the allow on
\* "*" and the deny on act:manage both match, and the request is refused.
C1_Witness ==
    /\ Called
    /\ req = <<User1, ActRead, OrgRestrictedOrg>>
    /\ SomeAllowMatches
    /\ \E rule \in p : rule[4] = Deny /\ rule[2] = ActManage /\ Matches(rule)
    /\ res = <<FALSE>>

C3_ActionTransitivity ==
    /\ Called =>
        \A rule \in p :
            (/\ rule[4] = Allow
             /\ SubjectMatches(rule)
             /\ PathExists(g2, rule[2], req[2])
             /\ ScopeReaches(g2, rule[3], req[3]))
            => /\ rule \in Candidates(p, g, g2, req[1], req[2], req[3])
               /\ ~SomeDenyMatches => res[1] = TRUE
    /\ AsExpected(ActionGroupingCases)

\* C3 witness: manage -> edit -> read without a direct manage -> read edge;
\* the holder of a role granted manage reads.
C3_Witness ==
    /\ Called
    /\ <<ActManage, ActEdit>> \in g2 /\ <<ActEdit, ActRead>> \in g2
    /\ <<ActManage, ActRead>> \notin g2
    /\ p = {<<RoleEditor, ActManage, OrgOpenedX, Allow>>}
    /\ <<UserBob, RoleEditor, OrgOpenedX>> \in g
    /\ req = <<UserBob, ActRead, OrgOpenedX>>
    /\ res = <<TRUE>>

C5_UniversalWildcard ==
    /\ (Called /\ ~SomeDenyMatches
        /\ \E rule \in p :
            /\ rule[4] = Allow
            /\ rule[3] = Star
            /\ SubjectMatches(rule)
            /\ ActionReaches(g2, rule[2], req[2]))
       => res[1] = TRUE
    /\ AsExpected(SystemWideCases)
    /\ AsExpected({case \in WildcardScopeCases : case.request[1] = User1})

\* C5 witness: SystemWideRoleTests, the platform admin manages the object "*".
C5_Witness ==
    /\ Called
    /\ req = <<User1, ActManage, Star>>
    /\ p = {<<RolePlatformAdmin, ActManage, Star, Allow>>}
    /\ res = <<TRUE>>

\* The pure-function call held has returned.
Returned(fn) == m_in.fn = fn /\ m_ret # <<>>

\* The pattern is "<type>:*" for the given type: the type, then ":*".
IsTypeStar(pat, type) == pat = type \o <<":", "*">>

\* C6: type_match(object, pattern) is true exactly when the pattern is
\* "<type>:*" and classify(object) is <type>, and false for every other
\* pattern shape, among them a pattern with more than one colon-separated
\* segment before the "*".
C6_TypeMatchIffTypeStar ==
    Returned("type_match")
    => (m_ret[1] = TRUE
        <=> (classify(m_in.obj) # None /\ IsTypeStar(m_in.pat, classify(m_in.obj))))

\* C7: the namespace-wildcard tests: "org:*" authorizes org:MIT, "course-v1:*"
\* authorizes course-v1:OpenedX+DemoX+CS101, "lib:*" authorizes
\* lib:math-basics, and none authorizes another namespace nor "*": every
\* WildcardScopeTests case returns what the test expects.
C7_NamespaceWildcard ==
    AsExpected({case \in WildcardScopeCases : case.request[1] \in {User2, User3, User4}})

\* The type a raw id is documented to have: the prefix word followed by "-"
\* or ":".
HasPrefix(obj, word) == Len(obj) >= 2 /\ obj[1] = word /\ obj[2] \in {"-", ":"}

\* C8: classify returns course, lib, report or asset for an id beginning with
\* that word followed by "-" or ":", and none for every other id.
C8_ClassifyByPrefix ==
    Returned("classify")
    => /\ \A word \in {"course", "lib", "report", "asset"} :
            HasPrefix(m_in.obj, word) <=> m_ret[1] = <<word>>
       /\ (\A word \in {"course", "lib", "report", "asset"} : ~HasPrefix(m_in.obj, word))
            <=> m_ret[1] = None

\* C8 witness: classify("course-v1:Org+Course+Run") has returned course.
C8_Witness ==
    /\ Returned("classify")
    /\ m_in.obj = CourseOrgCourseRun
    /\ m_ret = << <<"course">> >>

\* C9: containment propagates transitively: whenever a chain of containment
\* edges, of any length, leads from the requested object up to the scope of a
\* rule, the scope reaches the object, and the rule is a candidate as soon as
\* its subject and action match.
C9_ContainmentPropagates ==
    Called
    => \A rule \in p :
        PathExists(g2, req[3], rule[3])
        => /\ ScopeReaches(g2, rule[3], req[3])
           /\ (SubjectMatches(rule) /\ ActionReaches(g2, rule[2], req[2]))
                => rule \in Candidates(p, g, g2, req[1], req[2], req[3])

\* C9 witness: asset-9 under lib:OpenedX:DemoX under org:OpenedX, no direct
\* edge; a rule scoped org:OpenedX authorizes the request on asset-9.
C9_Witness ==
    /\ Called
    /\ <<Asset9, LibDemoX>> \in g2 /\ <<LibDemoX, OrgOpenedX>> \in g2
    /\ <<Asset9, OrgOpenedX>> \notin g2
    /\ p = {<<RoleEditor, ActRead, OrgOpenedX, Allow>>}
    /\ req = <<UserBob, ActRead, Asset9>>
    /\ res = <<TRUE>>

\* C10: scenario A: once ready() has installed its rules, grants and edges,
\* enforce(user:bob, read, course-v1:OpenedX+DemoX+DemoCourse) is true.
C10_ScenarioA ==
    (/\ Called
     /\ ReadyRules \subseteq p /\ ReadyGrants \subseteq g /\ ReadyEdges \subseteq g2
     /\ req = <<UserBob, Read, CourseDemo>>)
    => res[1] = TRUE

\* ready() has installed its rules, grants and edges in the policy the request
\* held was answered on.
ReadyInstalled ==
    /\ Called
    /\ ReadyRules \subseteq p /\ ReadyGrants \subseteq g /\ ReadyEdges \subseteq g2

\* C11: scenario B: once ready() has installed its rules, grants and edges,
\* enforce(user:maria, delete, report-123) is false while
\* enforce(user:maria, read, report-123) is true.
C11_ScenarioB ==
    /\ (ReadyInstalled /\ req = <<UserMaria, Delete, Report123>>) => res[1] = FALSE
    /\ (ReadyInstalled /\ req = <<UserMaria, Read, Report123>>) => res[1] = TRUE

---------------------------------------------------------------------------
(* The store-backed enforcer: memory, Policy Store and invalidation channel *)
(* The enforcer, its adapter and its watcher are library objects; their    *)
(* calls are modelled as far as the calls made by this repository use them. *)

\* Python str operations on lines of text: "," and " " are tokens of their own.
Comma == ","
Space == " "

\* str.strip(): leading and trailing whitespace removed
RECURSIVE Strip(_)
Strip(s) ==
    IF s = <<>> THEN s
    ELSE IF Head(s) = Space THEN Strip(Tail(s))
    ELSE IF s[Len(s)] = Space THEN Strip(SubSeq(s, 1, Len(s) - 1))
    ELSE s

\* str.split(","): the sequence of the parts between the commas
RECURSIVE SplitComma(_)
SplitComma(s) ==
    LET commas == {i \in 1..Len(s) : s[i] = Comma}
    IN  IF commas = {} THEN <<s>>
        ELSE LET first == CHOOSE i \in commas : \A j \in commas : i <= j
             IN  <<SubSeq(s, 1, first - 1)>> \o SplitComma(SubSeq(s, first + 1, Len(s)))

\* ", ".join(parts)
RECURSIVE JoinComma(_)
JoinComma(parts) ==
    IF parts = <<>> THEN <<>>
    ELSE IF Len(parts) = 1 THEN parts[1]
    ELSE parts[1] \o <<Comma, Space>> \o JoinComma(Tail(parts))

\* The in-memory policy of a process as one value.
Memory(P, G, G2) == [p |-> P, g |-> G, g2 |-> G2]
EmptyMemory == Memory({}, {}, {})

\* model.has_policy / model.add_policy for a tuple <<ptype, v0, v1, ...>>
MemHas(M, row) ==
    \/ row[1] = PtypeP /\ Tail(row) \in M.p
    \/ row[1] = PtypeG /\ Tail(row) \in M.g
    \/ row[1] = PtypeG2 /\ Tail(row) \in M.g2

MemAdd(M, row) ==
    IF row[1] = PtypeP THEN [M EXCEPT !.p = @ \cup {Tail(row)}]
    ELSE IF row[1] = PtypeG THEN [M EXCEPT !.g = @ \cup {Tail(row)}]
    ELSE IF row[1] = PtypeG2 THEN [M EXCEPT !.g2 = @ \cup {Tail(row)}]
    ELSE M

\* str(line) of a stored row, then persist.load_policy_line: the row printed
\* as "ptype, v0, v1, ..." and read back by splitting on commas.
RowStr(row) == JoinComma(row)
load_policy_line(line) ==
    LET parts == SplitComma(line)
    IN  [i \in 1..Len(parts) |-> Strip(parts[i])]

\* The policy a sequence of stored rows loads into an emptied model.
RECURSIVE LoadLines(_, _)
LoadLines(M, rows) ==
    IF rows = <<>> THEN M
    ELSE LoadLines(MemAdd(M, load_policy_line(RowStr(Head(rows)))), Tail(rows))

\* enforcer.load_policy(): a new model is built from all rows and replaces
\* the old one in one assignment.
LoadAll(rows) == LoadLines(EmptyMemory, rows)

\* The peer's watcher callback, callback_function(event): it prints the event
\* and returns; the peer's in-memory policy is what it was.
callback_function(peerMemory) == peerMemory

MaxMsgs == 2

\* enforcer.add_policy / add_named_grouping_policy with auto-save and a watcher,
\* for a tuple <<ptype, v0, v1, ...>>, on the state S = [mem, db, sent] of the
\* model, the store and the count of messages published: when the model holds
\* the tuple the call returns False and nothing happens; otherwise the adapter
\* inserts a row, the watcher publishes and the model adds the tuple.
AutoSaveAdd(S, row) ==
    IF MemHas(S.mem, row) THEN S
    ELSE [S EXCEPT !.mem = MemAdd(@, row), !.db = Append(@, row), !.sent = @ + 1]

\* The state the calls of this process act on, and its replacement.
Here == [mem |-> Memory(p, g, g2), db |-> db, sent |-> chan]
Becomes(S) ==
    /\ p' = S.mem.p /\ g' = S.mem.g /\ g2' = S.mem.g2
    /\ db' = S.db
    /\ chan' = S.sent

\* One such call, for a tuple the model does not hold.
enforcer_add(row) ==
    /\ ~MemHas(Memory(p, g, g2), row)
    /\ chan < MaxMsgs
    /\ Becomes(AutoSaveAdd(Here, row))
    /\ loaded' = <<>>
    /\ UNCHANGED <<callVars, matchVars, peer, cmd, userVars>>

\* The channel delivers one message to the peer, whose watcher runs the
\* callback it was given.
deliver ==
    /\ chan > 0
    /\ chan' = chan - 1
    /\ peer' = callback_function(peer)
    /\ UNCHANGED <<policyVars, callVars, matchVars, db, cmd, loaded, userVars>>

---------------------------------------------------------------------------
(* tests.py: requests with a fourth parameter, the scope of the role check  *)

UserAdmin == <<"user", ":", "admin">>
UserAlice == <<"user", ":", "alice">>
UserMary == <<"user", ":", "mary">>
UserJohn == <<"user", ":", "john">>
UserSarah == <<"user", ":", "sarah">>
RoleOrgEditor == <<"role", ":", "org_editor">>
RoleLibraryAuthor == <<"role", ":", "library_author">>
RoleLibraryReviewer == <<"role", ":", "library_reviewer">>
LibRestrictedContent == <<"lib", ":", "restricted", "-", "content">>
LibScience101 == <<"lib", ":", "science", "-", "101">>
LibMitLibrary == <<"lib", ":", "mit", "-", "library">>
LibMitContent == <<"lib", ":", "mit", "-", "content">>
LibMitCourse == <<"lib", ":", "mit", "-", "course">>
LibOpenedxLib == <<"lib", ":", "openedx", "-", "lib">>
LibOpenedxLibrary == <<"lib", ":", "openedx", "-", "library">>

\* setup_test_data(): the rows the store holds after it has run on a fresh
\* process, in the order of the calls.
SetupRows == <<
    <<PtypeP, RolePlatformAdmin, ActManage, Star, Allow>>,
    <<PtypeP, RoleOrgAdmin, ActManage, LibStar, Allow>>,
    <<PtypeP, RoleOrgEditor, ActEdit, LibStar, Allow>>,
    <<PtypeP, RoleLibraryAuthor, ActEdit, LibStar, Allow>>,
    <<PtypeP, RoleLibraryReviewer, ActRead, LibStar, Allow>>,
    <<PtypeP, RoleOrgEditor, ActEdit, LibRestrictedContent, Deny>>,
    <<PtypeG, UserAdmin, RolePlatformAdmin, Star>>,
    <<PtypeG, UserAlice, RoleOrgAdmin, OrgOpenedX>>,
    <<PtypeG, UserBob, RoleOrgEditor, OrgMIT>>,
    <<PtypeG, UserMary, RoleLibraryAuthor, LibMathBasics>>,
    <<PtypeG, UserJohn, RoleLibraryAuthor, LibScience101>>,
    <<PtypeG, UserSarah, RoleLibraryReviewer, LibMathBasics>>,
    <<PtypeG2, ActManage, ActRead>>,
    <<PtypeG2, ActManage, ActWrite>>,
    <<PtypeG2, ActManage, ActDelete>>,
    <<PtypeG2, ActEdit, ActRead>>,
    <<PtypeG2, ActEdit, ActWrite>> >>

\* 4.5 step 1 with the request's fourth parameter: the subject itself plus
\* every role it holds within the request scope.
ScopedEquivalents(G, subject, scope) ==
    {subject} \cup {r \in {gr[2] : gr \in G} : HasRole(G, subject, r, scope)}

\* enforce(subject, action, object, scope)
enforce_scoped(P, G, G2, subject, action, object, scope) ==
    LET equivalents == ScopedEquivalents(G, subject, scope)
    IN  Decide({rule \in P : IsCandidate(equivalents, G2, rule, action, object)})

\* Grants added on top of those of setup_test_data.
ScopedGrantCandidates ==
    { <<UserAlice, RoleOrgEditor, OrgMIT>>,
      <<UserMary, RoleOrgAdmin, Star>>,
      <<RoleOrgAdmin, RoleLibraryAuthor, OrgOpenedX>>,
      <<RoleLibraryAuthor, RolePlatformAdmin, LibMathBasics>> }

\* run_tests(): the requests on alice, mary and bob whose scope is not the
\* scope of their grant, and a grid around them.
ScopedRequests ==
    { <<UserAlice, ActManage, LibMitLibrary, OrgMIT>>,
      <<UserAlice, ActRead, LibMitContent, OrgMIT>>,
      <<UserAlice, ActManage, LibOpenedxLib, Star>>,
      <<UserMary, ActEdit, LibMathBasics, OrgOpenedX>>,
      <<UserBob, ActEdit, LibMitCourse, LibMitCourse>>,
      <<UserAlice, ActManage, LibOpenedxLibrary, OrgOpenedX>>,
      <<UserAdmin, ActManage, LibMathBasics, Star>> }
    \cup ({UserAlice, UserMary, UserBob} \X {ActManage, ActEdit}
            \X {LibMathBasics, LibMitCourse}
            \X {Star, OrgOpenedX, OrgMIT, LibMathBasics})

\* The process has run setup_test_data() and the load_policy() that opens
\* run_tests(); the peer has loaded the same rows.
InitScoped ==
    /\ db = SetupRows
    /\ p = LoadAll(SetupRows).p
    /\ g = LoadAll(SetupRows).g
    /\ g2 = LoadAll(SetupRows).g2
    /\ peer = LoadAll(SetupRows)
    /\ chan = 0
    /\ cmd = Idle
    /\ loaded = <<>>
    /\ req = <<>> /\ res = <<>>
    /\ m_in = [fn |-> "none", obj |-> <<>>, pat |-> <<>>]
    /\ m_ret = <<>>
    /\ InitUsers

\* enforcer.add_named_grouping_policy("g", [subject, role, scope])
scoped_add_grant(grant) ==
    /\ req = <<>>
    /\ Cardinality(g) < Cardinality(LoadAll(SetupRows).g) + MaxGrants
    /\ enforcer_add(<<PtypeG>> \o grant)

\* enforcer.enforce(subject, action, object, scope)
EnforceScoped(request) ==
    /\ req = <<>>
    /\ req' = request
    /\ res' = <<enforce_scoped(p, g, g2, request[1], request[2], request[3], request[4])>>
    /\ UNCHANGED <<policyVars, matchVars, storeVars, userVars>>

NextScoped ==
    \/ \E grant \in ScopedGrantCandidates : scoped_add_grant(grant)
    \/ \E request \in ScopedRequests : EnforceScoped(request)
    \/ Return
    \/ deliver

SpecScoped == InitScoped /\ [][NextScoped]_vars

\* A request with a scope has been answered.
CalledScoped == Called /\ Len(req) = 4

\* The grants recorded for the scope of the request held, or for "*".
GrantsInScope == {gr \in g : GrantScope(gr) = Star \/ GrantScope(gr) = req[4]}

\* The subject of the request held holds the role through a chain of grants
\* each recorded for the request scope or for "*".
HoldsInScope(role) ==
    PathExists({<<gr[1], gr[2]>> : gr \in GrantsInScope}, req[1], role)

\* C12: a grant confers its role only inside its recorded scope: the roles a
\* request is evaluated with are those reached through grants recorded for
\* the request scope or for "*", every authorized request has an allow rule
\* for the subject or such a role, and the requests of tests.py made outside
\* the scope of the grant are refused.
C12_GrantOnlyInScope ==
    CalledScoped =>
        /\ \A r \in ScopedEquivalents(g, req[1], req[4]) : r = req[1] \/ HoldsInScope(r)
        /\ res[1] = TRUE =>
            \E rule \in p :
                /\ rule[4] = Allow
                /\ rule[1] = Star \/ rule[1] = req[1] \/ HoldsInScope(rule[1])
        /\ (g = LoadAll(SetupRows).g
            /\ req \in { <<UserAlice, ActManage, LibMitLibrary, OrgMIT>>,
                         <<UserAlice, ActRead, LibMitContent, OrgMIT>>,
                         <<UserAlice, ActManage, LibOpenedxLib, Star>>,
                         <<UserMary, ActEdit, LibMathBasics, OrgOpenedX>>,
                         <<UserBob, ActEdit, LibMitCourse, LibMitCourse>> })
           => res[1] = FALSE

\* C12 witness: alice, org admin in org:OpenedX, asks to manage a library in
\* scope org:MIT; the rule of her role covers the action and the object, and
\* the request is refused.
C12_Witness ==
    /\ CalledScoped
    /\ req = <<UserAlice, ActManage, LibMitLibrary, OrgMIT>>
    /\ <<UserAlice, RoleOrgAdmin, OrgOpenedX>> \in g
    /\ \E rule \in p :
        /\ rule[1] = RoleOrgAdmin /\ rule[4] = Allow
        /\ ActionReaches(g2, rule[2], req[2])
        /\ ScopeReaches(g2, rule[3], req[3])
    /\ res = <<FALSE>>

---------------------------------------------------------------------------
(* management/commands/load_policy.py: Command._parse_policy_file           *)

Hash == "#"

\* The fields of a line: [part.strip() for part in line.split(",")]
Parts(line) ==
    LET parts == SplitComma(line)
    IN  [i \in 1..Len(parts) |-> Strip(parts[i])]

\* What the loop body does with one line: the tuple it appends, or <<>> when
\* the line is skipped.
ParsedLine(raw) ==
    LET line == Strip(raw)
    IN  IF line = <<>> \/ StartsWith(line, <<Hash>>) THEN <<>>
        ELSE IF Len(Parts(line)) < 2 THEN <<>>
        ELSE IF Parts(line)[1] \notin {PtypeP, PtypeG, PtypeG2} THEN <<>>
        ELSE <<Parts(line)>>

\* _parse_policy_file giving up at the first line it would skip
RECURSIVE parse_policy_file_abort(_)
parse_policy_file_abort(lines) ==
    IF lines = <<>> THEN <<>>
    ELSE IF ParsedLine(Head(lines)) = <<>> THEN <<>>
    ELSE ParsedLine(Head(lines)) \o parse_policy_file_abort(Tail(lines))

\* _parse_policy_file(file_path), on the lines of the file
RECURSIVE parse_policy_file(_)
parse_policy_file(lines) ==
    IF lines = <<>> THEN <<>>
    ELSE ParsedLine(Head(lines)) \o parse_policy_file(Tail(lines))

\* Harness: files of one line, and files of three lines whose middle line is
\* well formed, over lines of at most MaxLineLen tokens.
MaxLineLen == 3

LineTokens == {"p", "x", Comma, Space, Hash}

GoodLines ==
    { RowStr(<<PtypeP, RoleEditor, ActRead, Star, Allow>>),
      <<Space>> \o RowStr(<<PtypeG2, ActManage, ActRead>>) \o <<Space, Space>>,
      <<"g", Comma, "x", Space, Comma, Space, Space, "x", Space, "x">> }

ParseFiles ==
    {<<a>> : a \in SeqsUpTo(LineTokens, MaxLineLen)}
    \cup {<<a, good, b>> : a \in SeqsUpTo(LineTokens, MaxLineLen - 1),
                           good \in GoodLines,
                           b \in SeqsUpTo(LineTokens, MaxLineLen - 1)}

InitParse ==
    /\ p = {} /\ g = {} /\ g2 = {}
    /\ req = <<>> /\ res = <<>>
    /\ \E file \in ParseFiles : m_in = [fn |-> "_parse_policy_file", lines |-> file]
    /\ m_ret = <<>>
    /\ InitStore
    /\ InitUsers

call_parse_policy_file ==
    /\ m_in.fn = "_parse_policy_file"
    /\ m_ret = <<>>
    /\ m_ret' = <<parse_policy_file(m_in.lines)>>
    /\ UNCHANGED <<policyVars, callVars, m_in, storeVars, userVars>>

NextParse == call_parse_policy_file

SpecParse == InitParse /\ [][NextParse]_vars

\* The line, once trimmed, is blank or a comment.
BlankOrComment(line) == Strip(line) = <<>> \/ Strip(line)[1] = Hash

\* The number of comma-separated fields of the line.
FieldCount(line) == Cardinality({i \in 1..Len(line) : line[i] = Comma}) + 1

\* The line is kept: not blank, not a comment, two fields or more, and its
\* first field, trimmed, is p, g or g2.
Kept(line) ==
    /\ ~BlankOrComment(line)
    /\ FieldCount(line) >= 2
    /\ \E kind \in {PtypeP, PtypeG, PtypeG2} :
          StartsWith(Strip(line), kind)
          /\ LET rest == SubSeq(Strip(line), Len(kind) + 1, Len(Strip(line)))
             IN  Strip(rest)[1] = Comma

\* The k-th smallest element of a set of numbers.
Kth(S, k) == CHOOSE i \in S : Cardinality({j \in S : j < i}) = k - 1

\* C18: the parse returns exactly the kept lines of the file, in file order,
\* each as its trimmed fields, whatever skipped lines stand before, between or
\* after them.
C18_ParseSkipsBadLines ==
    Returned("_parse_policy_file") =>
        LET lines == m_in.lines
            kept == {i \in 1..Len(lines) : Kept(lines[i])}
            out == m_ret[1]
        IN  /\ Len(out) = Cardinality(kept)
            /\ \A k \in 1..Len(out) :
                  /\ out[k] = Parts(lines[Kth(kept, k)])
                  /\ \A i \in 1..Len(out[k]) :
                        out[k][i] = <<>> \/ (out[k][i][1] # Space /\ out[k][i][Len(out[k][i])] # Space)

\* C18 witness: a file whose first and last lines are skipped and whose middle
\* line is returned.
C18_Witness ==
    /\ Returned("_parse_policy_file")
    /\ Len(m_in.lines) = 3
    /\ m_in.lines[1] = <<"x", Comma>>
    /\ m_in.lines[3] = <<"p">>
    /\ Len(m_ret[1]) = 1
    /\ m_ret[1][1] = <<PtypeG2, ActManage, ActRead>>

---------------------------------------------------------------------------
(* engine/adapter.py: ExtendedAdapter                                       *)

\* A stored row is a record [id, cols]: its primary key and the sequence
\* <<ptype, v0, v1, ...>> of its non-null columns.  A filter is the sequence
\* of the seven sets filter.ptype, filter.v0, ..., filter.v5.
FilterAttrs == 1..7
NoFilter == [a \in FilterAttrs |-> {}]

\* The value of column a of the row; None for a null column, which the lookup
\* "<attr>__in" never selects.
Column(row, a) == IF a <= Len(row.cols) THEN row.cols[a] ELSE None

\* The loop of filter_query from attribute a on: one queryset.filter per
\* attribute whose filter set is not empty.
RECURSIVE FilterFrom(_, _, _)
FilterFrom(queryset, filter, a) ==
    IF a \notin FilterAttrs THEN queryset
    ELSE FilterFrom(
            IF Cardinality(filter[a]) > 0
                THEN {row \in queryset : Column(row, a) \in filter[a]}
                ELSE queryset,
            filter, a + 1)

\* queryset.order_by("id")
RECURSIVE OrderById(_)
OrderById(rows) ==
    IF rows = {} THEN <<>>
    ELSE LET first == CHOOSE row \in rows : \A other \in rows : row.id <= other.id
         IN  <<first>> \o OrderById(rows \ {first})

\* filter_query that looks at the ptype filter only
filter_query_ptype_only(queryset, filter) ==
    OrderById({row \in queryset : filter[1] = {} \/ Column(row, 1) \in filter[1]})

\* filter_query(queryset, filter)
filter_query(queryset, filter) == OrderById(FilterFrom(queryset, filter, 1))

\* CasbinRule.objects: the table, the id of a row being its position in db.
Table(rows) == {[id |-> i, cols |-> rows[i]] : i \in DOMAIN rows}

\* load_filtered_policy(model, filter): every selected row, in id order, is
\* printed and loaded into the model it is given.
load_filtered_policy(M, rows, filter) ==
    LET selected == filter_query(Table(rows), filter)
    IN  LoadLines(M, [i \in DOMAIN selected |-> selected[i].cols])

\* Harness: tables of at most MaxTableRows rows with ids in 1..MaxTableRows+1
\* and filters over the values the rows use.
MaxTableRows == 2

FilterValues == {<<"a">>, <<"b">>}

TableRows ==
    {<<k, v>> : k \in {PtypeP, PtypeG}, v \in FilterValues}
    \cup {<<k, <<"a">>, <<"a">>, w>> : k \in {PtypeP, PtypeG}, w \in FilterValues}

FilterTables ==
    UNION { { {[id |-> i, cols |-> c[i]] : i \in ids} : c \in [ids -> TableRows] } :
            ids \in {S \in SUBSET (1..(MaxTableRows + 1)) : Cardinality(S) <= MaxTableRows} }

Filters ==
    {<<fp, f0, f1, f2, {}, {}, f5>> :
        fp \in {{}, {PtypeP}, {PtypeP, PtypeG}},
        f0 \in {{}, {<<"a">>}, {<<"a">>, <<"b">>}},
        f1 \in {{}, {<<"b">>}},
        f2 \in {{}, {<<"a">>}, {<<"b">>}},
        f5 \in {{}, {<<"a">>}}}

InitFilter ==
    /\ p = {} /\ g = {} /\ g2 = {}
    /\ req = <<>> /\ res = <<>>
    /\ \E table \in FilterTables : \E filter \in Filters :
          m_in = [fn |-> "filter_query", table |-> table, filter |-> filter]
    /\ m_ret = <<>>
    /\ InitStore
    /\ InitUsers

call_filter_query ==
    /\ m_in.fn = "filter_query"
    /\ m_ret = <<>>
    /\ m_ret' = <<filter_query(m_in.table, m_in.filter)>>
    /\ UNCHANGED <<policyVars, callVars, m_in, storeVars, userVars>>

NextFilter == call_filter_query

SpecFilter == InitFilter /\ [][NextFilter]_vars

\* The row has, in every column whose filter set is not empty, a value of
\* that set.
Selected(row, filter) ==
    \A a \in FilterAttrs :
        filter[a] = {} \/ (a <= Len(row.cols) /\ row.cols[a] \in filter[a])

\* C16: filter_query returns exactly the rows that have, in every column with
\* a non-empty filter set, a value of that set, each once, in ascending id
\* order; with the seven sets empty it returns every row.
C16_FilteredLoadSelects ==
    Returned("filter_query") =>
        LET out == m_ret[1]
        IN  /\ Range(out) = {row \in m_in.table : Selected(row, m_in.filter)}
            /\ \A i, j \in 1..Len(out) : i < j => out[i].id < out[j].id
            /\ m_in.filter = NoFilter => Range(out) = m_in.table

\* C16 witness: two rows of kind p, one of them excluded by the filter on v0
\* although the filter on ptype accepts it, and a four-column filter that a
\* two-column row cannot meet.
C16_Witness ==
    /\ Returned("filter_query")
    /\ m_in.table = { [id |-> 3, cols |-> <<PtypeP, <<"a">>, <<"a">>, <<"b">>>>],
                      [id |-> 1, cols |-> <<PtypeP, <<"b">>>>] }
    /\ m_in.filter = <<{PtypeP}, {<<"a">>}, {}, {<<"b">>}, {}, {}, {}>>
    /\ m_ret[1] = << [id |-> 3, cols |-> <<PtypeP, <<"a">>, <<"a">>, <<"b">>>>] >>

---------------------------------------------------------------------------
(* management/commands/load_policy.py: the command, step by step            *)

MaxRows == 4
MaxLoads == 2

\* The tuples of the policy files the command is run on.
RuleAllow == <<PtypeP, RoleEditor, ActRead, Star, Allow>>
RuleDeny == <<PtypeP, RoleEditor, ActRead, OrgOpenedX, Deny>>
GrantBob == <<PtypeG, UserBob, RoleEditor>>
RuleShort == <<PtypeP, RoleEditor, ActRead>>

\* A file with a comment, an allow rule and a deny rule; a file with a grant
\* and a rule that lacks fields; a file without any valid line.
FileRules == << <<Hash, Space, "x">>, RowStr(RuleAllow), RowStr(RuleDeny) >>
FileGrant == << RowStr(GrantBob), RowStr(RuleShort) >>
FileInvalid == << <<Hash, "x">>, <<>>, <<"x", Comma, "x">>, <<"p">> >>

\* A file with a hierarchy edge, a grant that lacks fields and the edge again.
EdgeManageRead == <<PtypeG2, ActManage, ActRead>>
GrantShort == <<PtypeG, UserBob>>
FileEdges == << RowStr(EdgeManageRead), RowStr(GrantShort), RowStr(EdgeManageRead) >>

PolicyFiles == {FileRules, FileGrant, FileInvalid, FileEdges}

StoreRequests ==
    { <<UserBob, ActRead, OrgOpenedX>>, <<UserBob, ActRead, LibDemoX>> }

StoreFilters == { <<{PtypeP}, {}, {}, {}, {}, {}, {}>>, <<{}, {RoleEditor}, {}, {Star}, {}, {}, {}>> }

\* The arity test asking two value fields of every kind
AcceptedTwoFields(tuple) == Len(Tail(tuple)) >= 2

\* The arity test of the loop of _load_policies_to_database: the tuple is
\* passed to the enforcer (and counted as loaded when the call returns).
Accepted(tuple) ==
    \/ tuple[1] = PtypeP /\ Len(Tail(tuple)) >= 4
    \/ tuple[1] = PtypeG /\ Len(Tail(tuple)) >= 2
    \/ tuple[1] = PtypeG2 /\ Len(Tail(tuple)) >= 2

\* One turn of the loop on the state S = [mem, db, sent].
LoadOne(S, tuple) == IF Accepted(tuple) THEN AutoSaveAdd(S, tuple) ELSE S

\* enforcer.clear_policy(): the model is emptied; the store is not written.
ClearPolicy(S) == [S EXCEPT !.mem = EmptyMemory]

\* enforcer.load_policy() at the end of handle
Reload(S) == [S EXCEPT !.mem = LoadAll(S.db)]

\* handle() clearing before it looks at what the file gave
StartPcClearFirst(policies, clear_existing, dry_run) ==
    IF dry_run THEN "done"
    ELSE IF clear_existing THEN "clear"
    ELSE IF policies = <<>> THEN "done"
    ELSE "add"

\* handle() ignoring --dry-run
StartPcNoDryRun(policies, clear_existing, dry_run) ==
    IF policies = <<>> THEN "done"
    ELSE IF clear_existing THEN "clear"
    ELSE "add"

\* The position handle() reaches once the file is parsed: it returns when no
\* valid policy was found and after the preview of a dry run; otherwise it
\* enters _load_policies_to_database.
StartPc(policies, clear_existing, dry_run) ==
    IF policies = <<>> THEN "done"
    ELSE IF dry_run THEN "done"
    ELSE IF clear_existing THEN "clear"
    ELSE "add"

\* handle(): options read, file parsed, statistics and preview displayed.
handle(file, clear_existing, dry_run) ==
    /\ cmd.pc = "idle"
    /\ req = <<>>
    /\ LET policies == parse_policy_file(file)
       IN  /\ Len(db) + Len(policies) <= MaxRows
           /\ cmd' = [pc |-> StartPc(policies, clear_existing, dry_run),
                      clear_existing |-> clear_existing,
                      dry_run |-> dry_run,
                      policies |-> policies,
                      i |-> 1,
                      loaded_count |-> 0,
                      failed |-> {},
                      before |-> Here]
    /\ UNCHANGED <<policyVars, callVars, matchVars, db, peer, chan, loaded, userVars>>

\* if clear_existing: enforcer.clear_policy()
cmd_clear ==
    /\ cmd.pc = "clear"
    /\ req = <<>>
    /\ Becomes(ClearPolicy(Here))
    /\ cmd' = [cmd EXCEPT !.pc = "add"]
    /\ loaded' = <<>>
    /\ UNCHANGED <<callVars, matchVars, peer, userVars>>

\* A loop that lets the exception of an add call end the command
TurnPcAbort(i, n, raised) ==
    IF raised THEN "done"
    ELSE IF i = n THEN "reload"
    ELSE "add"

\* Where the command stands after turn i of n of the loop, whether or not the
\* add call of the turn raised: the except clause of the loop body reports
\* the exception and the loop goes on; after the last turn handle reloads.
TurnPc(i, n, raised) == IF i = n THEN "reload" ELSE "add"

\* One turn of the loop "for policy_tuple in policies"; after the last turn
\* handle goes on to the reload.
cmd_add ==
    /\ cmd.pc = "add"
    /\ req = <<>>
    /\ LET tuple == cmd.policies[cmd.i]
       IN  /\ LoadOne(Here, tuple).sent <= MaxMsgs
           /\ Becomes(LoadOne(Here, tuple))
           /\ cmd' = [cmd EXCEPT
                        !.i = @ + 1,
                        !.loaded_count = IF Accepted(tuple) THEN @ + 1 ELSE @,
                        !.pc = TurnPc(cmd.i, Len(cmd.policies), FALSE)]
    /\ loaded' = <<>>
    /\ UNCHANGED <<callVars, matchVars, peer, userVars>>

\* The stages of an add call that writes: the adapter inserts the row, then
\* the watcher publishes, then the model adds the tuple.
AddStages == {"adapter", "watcher"}

\* One turn of the loop whose add call raises, in the adapter (nothing is
\* written) or in the watcher (the row is written, nothing is published and
\* the model is not updated); the turn is not counted.
cmd_add_raises(stage) ==
    /\ cmd.pc = "add"
    /\ req = <<>>
    /\ LET tuple == cmd.policies[cmd.i]
       IN  /\ Accepted(tuple)
           /\ ~MemHas(Memory(p, g, g2), tuple)
           /\ db' = IF stage = "watcher" THEN Append(db, tuple) ELSE db
           /\ cmd' = [cmd EXCEPT
                        !.i = @ + 1,
                        !.failed = @ \cup {cmd.i},
                        !.pc = TurnPc(cmd.i, Len(cmd.policies), TRUE)]
    /\ loaded' = <<>>
    /\ UNCHANGED <<policyVars, callVars, matchVars, peer, chan, userVars>>

\* enforcer.load_policy() at the end of handle
cmd_reload ==
    /\ cmd.pc = "reload"
    /\ req = <<>>
    /\ Becomes(Reload(Here))
    /\ cmd' = [cmd EXCEPT !.pc = "done"]
    /\ loaded' = <<>>
    /\ UNCHANGED <<callVars, matchVars, peer, userVars>>

\* handle() has returned.
cmd_exit ==
    /\ cmd.pc = "done"
    /\ req = <<>>
    /\ cmd' = Idle
    /\ UNCHANGED <<policyVars, callVars, matchVars, db, peer, chan, loaded, userVars>>

\* The ways this process reloads: enforcer.load_policy(), and
\* enforcer.load_filtered_policy(filter) for the filters in use.
FullLoad == [full |-> TRUE, filter |-> NoFilter]
Loads == {FullLoad} \cup {[full |-> FALSE, filter |-> f] : f \in StoreFilters}

\* A load into the current model, nothing emptied first
LoadedModelKeeping(M, rows, how) ==
    IF how.full THEN LoadLines(M, rows)
    ELSE load_filtered_policy(M, rows, how.filter)

\* The model a load puts in place of the current one; both kinds of load
\* start from an emptied model.
LoadedModel(M, rows, how) ==
    IF how.full THEN LoadAll(rows)
    ELSE load_filtered_policy(EmptyMemory, rows, how.filter)

\* enforcer.load_policy() / enforcer.load_filtered_policy(filter) called on
\* this process while no command runs.
reload(how) ==
    /\ cmd.pc = "idle"
    /\ req = <<>>
    /\ (loaded # <<>> /\ loaded.how = how) => loaded.times < MaxLoads
    /\ LET M == LoadedModel(Memory(p, g, g2), db, how)
       IN  /\ p' = M.p /\ g' = M.g /\ g2' = M.g2
           /\ loaded' = IF loaded # <<>> /\ loaded.how = how
                            THEN [loaded EXCEPT !.times = @ + 1]
                            ELSE [how |-> how, times |-> 1, first |-> M]
    /\ UNCHANGED <<callVars, matchVars, db, peer, chan, cmd, userVars>>

\* CasbinRule.objects.all().delete()
orm_delete_all ==
    /\ cmd.pc = "idle"
    /\ req = <<>>
    /\ db # <<>>
    /\ db' = <<>>
    /\ loaded' = <<>>
    /\ UNCHANGED <<policyVars, callVars, matchVars, peer, chan, cmd, userVars>>

NextStore ==
    \/ \E file \in PolicyFiles : \E clear_existing, dry_run \in BOOLEAN :
          handle(file, clear_existing, dry_run)
    \/ cmd_clear
    \/ cmd_add
    \/ \E stage \in AddStages : cmd_add_raises(stage)
    \/ cmd_reload
    \/ cmd_exit
    \/ \E how \in Loads : reload(how)
    \/ orm_delete_all
    \/ \E request \in StoreRequests : Enforce(request)
    \/ Return
    \/ deliver

SpecStore == Init /\ [][NextStore]_vars

\* enforce on a model M
Answer(M, request) == enforce(M.p, M.g, M.g2, request[1], request[2], request[3])

\* handle() is between its first write and its return.
InProgress == cmd.pc \in {"clear", "add", "reload"}

\* The loop of _load_policies_to_database from tuple i on, run without
\* interruption.
RECURSIVE LoadFrom(_, _, _)
LoadFrom(S, policies, i) ==
    IF i > Len(policies) THEN S
    ELSE LoadFrom(LoadOne(S, policies[i]), policies, i + 1)

\* The policy the command in progress leaves when it runs to its end alone.
AfterCommand ==
    LET start == IF cmd.clear_existing THEN ClearPolicy(cmd.before) ELSE cmd.before
    IN  Reload(LoadFrom(start, cmd.policies, 1)).mem

\* C13: while the load_policy command is in progress, an enforce call returns
\* the answer of the complete policy before the load or the answer of the
\* complete policy after it.
C13_NoMixedSnapshot ==
    (InProgress /\ Called)
    => \/ res[1] = Answer(cmd.before.mem, req)
       \/ res[1] = Answer(AfterCommand, req)

\* The tuples of the selected rows of the store, relation by relation.
StoredModel(filter) ==
    LET kept == {row \in Table(db) : Selected(row, filter)}
        of(kind) == {Tail(row.cols) : row \in {r \in kept : r.cols[1] = kind}}
    IN  Memory(of(PtypeP), of(PtypeG), of(PtypeG2))

C19_DryRunChangesNothing ==
    (cmd.pc # "idle" /\ cmd.dry_run) =>
        /\ cmd.pc = "done"
        /\ cmd.loaded_count = 0
        /\ Memory(p, g, g2) = cmd.before.mem
        /\ db = cmd.before.db
        /\ chan <= cmd.before.sent

\* C19 witness: a dry run with --clear-existing of a file with valid policies
\* has returned, on a store that held rows.
C19_Witness ==
    /\ cmd.pc = "done"
    /\ cmd.dry_run
    /\ cmd.clear_existing
    /\ cmd.policies # <<>>
    /\ db # <<>>
    /\ p # {}

\* C20: after a run with --clear-existing of a file with at least one valid
\* policy, the store and the reloaded enforcer hold exactly the tuples loaded
\* from the file.
C20_ClearExistingReplaces ==
    (cmd.pc = "done" /\ cmd.clear_existing /\ ~cmd.dry_run /\ cmd.policies # <<>>)
    => LET fromFile == {tuple \in Range(cmd.policies) : Accepted(tuple)}
       IN  /\ Range(db) = fromFile
           /\ Memory(p, g, g2) = StoredModel(NoFilter)
           /\ \A row \in Range(cmd.before.db) : row \in fromFile \/ ~MemHas(Memory(p, g, g2), row)

---------------------------------------------------------------------------
(* Two processes on one store: writes, invalidation messages, the peer      *)

ChannelRows == {RuleAllow, RuleDeny, GrantBob, <<PtypeG2, ActManage, ActRead>>}

\* A write made through the enforcer of this process.
channel_add(row) ==
    /\ req = <<>>
    /\ Len(db) < MaxRows
    /\ enforcer_add(row)

\* The peer calls enforcer.load_policy() itself (its own command or test run).
peer_load ==
    /\ peer # LoadAll(db)
    /\ peer' = LoadAll(db)
    /\ UNCHANGED <<policyVars, callVars, matchVars, db, chan, cmd, loaded, userVars>>

NextChannel ==
    \/ \E row \in ChannelRows : channel_add(row)
    \/ deliver
    \/ peer_load

\* The channel delivers every message it holds; nothing makes the peer call
\* load_policy() of its own accord.
SpecChannel == Init /\ [][NextChannel]_vars /\ WF_vars(deliver)

\* The peer's snapshot is the policy of the store.
PeerCurrent == peer = LoadAll(db)

\* C14: once a write is in the store and the channel has delivered its message
\* to the peer, the peer eventually holds a snapshot rebuilt from the store.
C14_PeerEventuallyReloads ==
    (db # <<>> /\ chan = 0 /\ ~PeerCurrent) ~> PeerCurrent

---------------------------------------------------------------------------
(* enforce on graphs with self-loops and cycles                             *)

MaxCycleEdges == 3

CycleGrants ==
    { <<UserBob, RoleEditor, Star>>,
      <<RoleEditor, RoleAdmin, Star>>,
      <<RoleAdmin, RoleEditor, Star>>,
      <<RoleAdmin, RoleAdmin, OrgOpenedX>> }

CycleEdges ==
    { <<ActManage, ActEdit>>, <<ActEdit, ActManage>>, <<ActEdit, ActEdit>>,
      <<ActEdit, ActRead>>,
      <<Asset9, LibDemoX>>, <<LibDemoX, Asset9>>, <<LibDemoX, OrgOpenedX>> }

CycleRules ==
    { <<RoleAdmin, ActManage, OrgOpenedX, Allow>>,
      <<RoleAdmin, ActRead, Star, Allow>>,
      <<RoleEditor, ActEdit, LibDemoX, Deny>> }

CycleRequests == {UserBob} \X {ActManage, ActRead} \X {Asset9, OrgOpenedX}

\* An enforcer holding any of the rules, and at most MaxCycleEdges grants and
\* MaxCycleEdges hierarchy edges, cycles allowed.
InitCycles ==
    /\ p \in SUBSET CycleRules
    /\ g \in {G \in SUBSET CycleGrants : Cardinality(G) <= MaxCycleEdges}
    /\ g2 \in {E \in SUBSET CycleEdges : Cardinality(E) <= MaxCycleEdges}
    /\ req = <<>> /\ res = <<>>
    /\ m_in = [fn |-> "none", obj |-> <<>>, pat |-> <<>>]
    /\ m_ret = <<>>
    /\ InitStore
    /\ InitUsers

NextCycles ==
    \/ \E request \in CycleRequests : Enforce(request)
    \/ Return

SpecCycles == InitCycles /\ [][NextCycles]_vars

\* Some edge of E closes a cycle: its target leads back to its source.
HasCycle(E) == \E e \in E : e[1] = e[2] \/ PathExists(E \ {e}, e[2], e[1])

\* The object of the request held lies under the scope: equal, "*", of the
\* scope's type, or below it along a chain of distinct edges.
ObjectUnder(scope) ==
    \/ scope = req[3]
    \/ scope = Star
    \/ type_match(req[3], scope)
    \/ PathExists(g2, req[3], scope)

\* The rule matches the request held, every graph followed along chains of
\* distinct edges only.
SimplyMatches(rule) ==
    /\ \/ rule[1] = Star
       \/ rule[1] = req[1]
       \/ \E gr \in g :
            /\ ObjectUnder(GrantScope(gr))
            /\ PathExists({<<x[1], x[2]>> :
                            x \in {y \in g : GrantScope(y) \in {Star, GrantScope(gr)}}},
                          req[1], rule[1])
    /\ rule[2] = req[2] \/ PathExists(g2, rule[2], req[2])
    /\ ObjectUnder(rule[3])

\* C17: on graphs with self-loops and cycles every enforce call returns a
\* boolean, and the one it returns on the graphs without them in mind: a rule
\* counts exactly when chains of distinct edges link it to the request, so a
\* cycle adds nothing beyond the nodes on it and takes nothing away.
C17_CyclesTerminate ==
    Called =>
        /\ res[1] \in BOOLEAN
        /\ res[1] = TRUE <=>
              /\ \E rule \in p : rule[4] = Allow /\ SimplyMatches(rule)
              /\ ~\E rule \in p : rule[4] = Deny /\ SimplyMatches(rule)

\* C17 witness: the roles form a cycle, the actions have a self-loop on the
\* way from manage to read, and the request is answered (and allowed).
C17_Witness ==
    /\ Called
    /\ g = {<<UserBob, RoleEditor, Star>>, <<RoleEditor, RoleAdmin, Star>>,
            <<RoleAdmin, RoleEditor, Star>>}
    /\ g2 = {<<ActManage, ActEdit>>, <<ActEdit, ActEdit>>, <<ActEdit, ActRead>>}
    /\ HasCycle({<<gr[1], gr[2]>> : gr \in g}) /\ HasCycle(g2)
    /\ p = {<<RoleAdmin, ActManage, OrgOpenedX, Allow>>}
    /\ req = <<UserBob, ActRead, OrgOpenedX>>
    /\ res = <<TRUE>>

---------------------------------------------------------------------------
(* management/commands/enforcement.py: requests read from a file and from   *)
(* the prompt                                                               *)

\* str.split(): the words between runs of whitespace, none of them empty
RECURSIVE SplitWhitespace(_)
SplitWhitespace(s) ==
    IF s = <<>> THEN <<>>
    ELSE IF Head(s) = Space THEN SplitWhitespace(Tail(s))
    ELSE LET spaces == {i \in 1..Len(s) : s[i] = Space}
             end == IF spaces = {} THEN Len(s) + 1
                    ELSE CHOOSE i \in spaces : \A j \in spaces : i <= j
         IN  <<SubSeq(s, 1, end - 1)>> \o SplitWhitespace(SubSeq(s, end, Len(s)))

\* str.lower() on the words the request files write for the expected result
Lower(s) == [i \in 1..Len(s) |-> IF s[i] \in {"True", "TRUE"} THEN "true" ELSE s[i]]

\* The counters and the output of _process_requests before the first line.
NoRequests == [total |-> 0, passed |-> 0, failed |-> 0, out |-> <<>>]

\* What a line leaves on the output: its number, the message printed and the
\* arguments of the enforce call made for it (<<>> when none was made).
Event(line_num, kind, call) == [line_num |-> line_num, kind |-> kind, call |-> call]

\* The loop body of _process_requests taking the first four of five or more
\* fields
process_line_truncating(M, raw, line_num, acc) ==
    LET line == Strip(raw)
        parts == Parts(line)
    IN  IF line = <<>> \/ StartsWith(line, <<Hash>>) THEN acc
        ELSE IF Len(parts) < 5
            THEN [acc EXCEPT !.total = @ + 1, !.failed = @ + 1,
                             !.out = Append(@, Event(line_num, "invalid", <<>>))]
        ELSE LET call == SubSeq(parts, 1, 4)
                 expected_result == Lower(parts[Len(parts)]) = <<"true">>
                 actual_result == enforce_scoped(M.p, M.g, M.g2, call[1], call[2], call[3], call[4])
             IN  IF actual_result = expected_result
                    THEN [acc EXCEPT !.total = @ + 1, !.passed = @ + 1,
                                     !.out = Append(@, Event(line_num, "pass", call))]
                    ELSE [acc EXCEPT !.total = @ + 1, !.failed = @ + 1,
                                     !.out = Append(@, Event(line_num, "fail", call))]

\* The loop body of _process_requests on the line numbered line_num, for the
\* enforcer holding the policy M: blank lines and comments are passed over,
\* a line that has not 5 fields is reported and counted as failed, any other
\* line is evaluated and compared with the result it expects.
process_line(M, raw, line_num, acc) ==
    LET line == Strip(raw)
        parts == Parts(line)
    IN  IF line = <<>> \/ StartsWith(line, <<Hash>>) THEN acc
        ELSE IF Len(parts) # 5
            THEN [acc EXCEPT !.total = @ + 1, !.failed = @ + 1,
                             !.out = Append(@, Event(line_num, "invalid", <<>>))]
        ELSE LET call == SubSeq(parts, 1, 4)
                 expected_result == Lower(parts[5]) = <<"true">>
                 actual_result == enforce_scoped(M.p, M.g, M.g2, call[1], call[2], call[3], call[4])
             IN  IF actual_result = expected_result
                    THEN [acc EXCEPT !.total = @ + 1, !.passed = @ + 1,
                                     !.out = Append(@, Event(line_num, "pass", call))]
                    ELSE [acc EXCEPT !.total = @ + 1, !.failed = @ + 1,
                                     !.out = Append(@, Event(line_num, "fail", call))]

\* _process_requests(enforcer, request_file), on the lines of the file from
\* line line_num on
RECURSIVE process_requests(_, _, _, _)
process_requests(M, lines, line_num, acc) ==
    IF line_num > Len(lines) THEN acc
    ELSE process_requests(M, lines, line_num + 1,
                          process_line(M, lines[line_num], line_num, acc))

\* One turn of the loop of _run_interactive_mode: the input is trimmed, an
\* empty input is passed over, any other goes to _test_interactive_request,
\* which reports an input that has not 4 words and evaluates any other.
test_interactive_request(M, user_input) ==
    LET parts == SplitWhitespace(user_input)
    IN  IF Len(parts) # 4 THEN <<Event(1, "invalid", <<>>)>>
        ELSE IF enforce_scoped(M.p, M.g, M.g2, parts[1], parts[2], parts[3], parts[4])
            THEN <<Event(1, "allowed", parts)>>
            ELSE <<Event(1, "denied", parts)>>

run_interactive_mode(M, raw) ==
    IF Strip(raw) = <<>> THEN <<>> ELSE test_interactive_request(M, Strip(raw))

\* Harness: request files of one line of at most MaxReqLen tokens, alone or
\* after a well-formed request, and inputs of at most MaxInputLen tokens.
MaxReqLen == 6
MaxInputLen == 7

ReqTokens == {"x", Comma, Space, Hash}
InputTokens == {"x", Comma, Space}

GoodRequests ==
    { JoinComma(<<UserAlice, ActManage, LibOpenedxLib, OrgOpenedX, <<"True">>>>),
      JoinComma(<<UserAlice, ActManage, LibMitLibrary, OrgMIT, <<"true">>>>),
      <<Space>> \o JoinComma(<<UserBob, ActEdit, LibMitCourse, OrgMIT, <<"false">>>>) }

RequestFiles ==
    {<<a>> : a \in SeqsUpTo(ReqTokens, MaxReqLen)}
    \cup {<<good, a>> : good \in GoodRequests, a \in SeqsUpTo(ReqTokens, MaxReqLen)}

GoodInputs ==
    { <<Space>> \o UserAlice \o <<Space, Space>> \o ActManage \o <<Space>>
          \o LibOpenedxLib \o <<Space>> \o OrgOpenedX \o <<Space>>,
      UserAlice \o <<Space>> \o ActManage \o <<Space>> \o LibMitLibrary \o <<Space>> \o OrgMIT,
      <<"help">>, <<"quit">> }

Inputs == SeqsUpTo(InputTokens, MaxInputLen) \cup GoodInputs

\* The enforcer of the command holds the policy of setup_test_data.
InitRequests ==
    /\ p = LoadAll(SetupRows).p
    /\ g = LoadAll(SetupRows).g
    /\ g2 = LoadAll(SetupRows).g2
    /\ req = <<>> /\ res = <<>>
    /\ \/ \E file \in RequestFiles : m_in = [fn |-> "_process_requests", lines |-> file]
       \/ \E raw \in Inputs : m_in = [fn |-> "_run_interactive_mode", lines |-> <<raw>>]
    /\ m_ret = <<>>
    /\ InitStore
    /\ InitUsers

call_process_requests ==
    /\ m_in.fn = "_process_requests"
    /\ m_ret = <<>>
    /\ m_ret' = <<process_requests(Memory(p, g, g2), m_in.lines, 1, NoRequests)>>
    /\ UNCHANGED <<policyVars, callVars, m_in, storeVars, userVars>>

call_run_interactive_mode ==
    /\ m_in.fn = "_run_interactive_mode"
    /\ m_ret = <<>>
    /\ m_ret' = <<[NoRequests EXCEPT !.out = run_interactive_mode(Memory(p, g, g2), m_in.lines[1])]>>
    /\ UNCHANGED <<policyVars, callVars, m_in, storeVars, userVars>>

NextRequests ==
    \/ call_process_requests
    \/ call_run_interactive_mode

SpecRequests == InitRequests /\ [][NextRequests]_vars

\* The number of words of a text: the places where a word starts.
WordCount(s) ==
    Cardinality({i \in 1..Len(s) : s[i] # Space /\ (i = 1 \/ s[i - 1] = Space)})

\* The text without its whitespace.
NotSpace(t) == t # Space
Squeeze(s) == SelectSeq(s, NotSpace)

\* The events a run left for line i.
EventsOf(out, i) == {k \in 1..Len(out) : out[k].line_num = i}

\* C21: a request of invalid shape is reported and never evaluated: a line of
\* the request file that is neither blank nor a comment and has not exactly 5
\* comma-separated fields leaves one error message and no enforce call and is
\* counted as failed, and so does an input that has not exactly 4 words
\* (without the count); every enforce call is made for a line of exactly 5
\* fields, or an input of exactly 4 words, with these fields as they stand.
C21_InvalidShapeNotEvaluated ==
    /\ Returned("_process_requests") =>
        LET lines == m_in.lines
            r == m_ret[1]
            counted == {i \in 1..Len(lines) : ~BlankOrComment(lines[i])}
            bad == {i \in counted : FieldCount(lines[i]) # 5}
            failing == {k \in 1..Len(r.out) : r.out[k].kind \in {"invalid", "fail"}}
        IN  /\ \A i \in bad :
                  /\ Cardinality(EventsOf(r.out, i)) = 1
                  /\ \A k \in EventsOf(r.out, i) :
                        r.out[k].kind = "invalid" /\ r.out[k].call = <<>>
            /\ \A k \in 1..Len(r.out) :
                  r.out[k].call # <<>> =>
                      /\ r.out[k].line_num \in counted \ bad
                      /\ r.out[k].call = SubSeq(Parts(lines[r.out[k].line_num]), 1, 4)
                      /\ Len(Parts(lines[r.out[k].line_num])) = 5
            /\ r.total = Cardinality(counted)
            /\ r.failed = Cardinality(failing)
            /\ r.failed >= Cardinality(bad)
            /\ r.passed + r.failed = r.total
    /\ Returned("_run_interactive_mode") =>
        LET raw == m_in.lines[1]
            out == m_ret[1].out
        IN  /\ WordCount(raw) = 0 => out = <<>>
            /\ WordCount(raw) \notin {0, 4} =>
                  Len(out) = 1 /\ out[1].kind = "invalid" /\ out[1].call = <<>>
            /\ WordCount(raw) = 4 =>
                  /\ Len(out) = 1 /\ out[1].kind \in {"allowed", "denied"}
                  /\ Len(out[1].call) = 4
                  /\ \A k \in 1..4 : Space \notin Range(out[1].call[k])
                  /\ out[1].call[1] \o out[1].call[2] \o out[1].call[3] \o out[1].call[4]
                        = Squeeze(raw)

\* C21 witness: after a request that passes, a line of 6 fields is reported,
\* counted as failed and not evaluated.
C21_Witness ==
    /\ Returned("_process_requests")
    /\ Len(m_in.lines) = 2
    /\ m_in.lines[2] = <<"x", Comma, Comma, Comma, Comma, Comma>>
    /\ m_ret[1].total = 2 /\ m_ret[1].passed = 1 /\ m_ret[1].failed = 1
    /\ Len(m_ret[1].out) = 2
    /\ m_ret[1].out[1].kind = "pass" /\ m_ret[1].out[1].call[1] = UserAlice
    /\ m_ret[1].out[2] = Event(2, "invalid", <<>>)

---------------------------------------------------------------------------
(* Mutation calls made through one store-backed enforcer                    *)

WriteRows ==
    { RuleAllow, RuleDeny, GrantBob, <<PtypeG, UserAlice, RoleOrgAdmin, OrgOpenedX>>,
      <<PtypeG2, ActManage, ActRead>>, <<PtypeG2, ActEdit, ActRead>> }

\* The stores a process starts on.
WriteStores == { <<>>, <<GrantBob>>, <<RuleAllow, <<PtypeG2, ActManage, ActRead>>>> }

\* The enforcer has just loaded the store.
InitWrite ==
    /\ \E rows \in WriteStores :
          /\ db = rows
          /\ p = LoadAll(rows).p /\ g = LoadAll(rows).g /\ g2 = LoadAll(rows).g2
          /\ peer = LoadAll(rows)
    /\ chan = 0
    /\ cmd = Idle
    /\ loaded = <<>>
    /\ req = <<>> /\ res = <<>>
    /\ m_in = [fn |-> "none", obj |-> <<>>, pat |-> <<>>]
    /\ m_ret = <<>>
    /\ InitUsers

\* enforcer.add_policy(...) / enforcer.add_named_grouping_policy("g" or "g2", ...)
write_add(row) ==
    /\ Len(db) < MaxRows
    /\ enforcer_add(row)

\* enforcer.clear_policy()
write_clear ==
    /\ Memory(p, g, g2) # EmptyMemory
    /\ Becomes(ClearPolicy(Here))
    /\ loaded' = <<>>
    /\ UNCHANGED <<callVars, matchVars, peer, cmd, userVars>>

NextWrite ==
    \/ \E row \in WriteRows : write_add(row)
    \/ write_clear
    \/ deliver

SpecWrite == InitWrite /\ [][NextWrite]_vars

\* C22: after any sequence of add and clear calls made through a freshly
\* loaded enforcer with auto-save, the tuples of the store are the tuples the
\* enforcer holds in memory, relation by relation.
C22_WrittenThrough == Memory(p, g, g2) = StoredModel(NoFilter)

---------------------------------------------------------------------------
(* rest_api/utils.py: get_user_by_username_or_email and its per-thread cache *)

\* A row of the user table; retired: the row has a userretirementrequest.
UserRow(username, email, profile) ==
    [username |-> username, email |-> email, retired |-> FALSE,
     is_staff |-> profile = "staff", is_superuser |-> profile = "superuser",
     creator |-> profile = "creator"]

NoUser == UserRow("", "", "none")

\* What a lookup gives its caller: a user, or an exception.
Found(user) == [kind |-> "user", user |-> user]
Raised(exception) == [kind |-> exception, user |-> NoUser]

\* What the cache holds for a key: a user, or None.
NoneValue == [kind |-> "None", user |-> NoUser]

\* User.objects.get(Q(email=key) | Q(username=key)): the row, DoesNotExist
\* when no row matches, MultipleObjectsReturned when several do.
objects_get(table, key) ==
    LET rows == {u \in table : u.email = key \/ u.username = key}
    IN  IF rows = {} THEN Raised("DoesNotExist")
        ELSE IF Cardinality(rows) > 1 THEN Raised("MultipleObjectsReturned")
        ELSE Found(CHOOSE u \in rows : TRUE)

\* dict[key] = value
DictSet(dict, key, value) ==
    [k \in DOMAIN dict \cup {key} |-> IF k = key THEN value ELSE dict[k]]

\* get_user_by_username_or_email(username_or_email) in a thread whose cache is
\* data, on the user table: [outcome, data, queried], the outcome for the
\* caller, the cache afterwards and whether the table was queried.
get_user_by_username_or_email(table, data, key) ==
    LET got == objects_get(table, key)
        data1 ==
            IF key \in DOMAIN data THEN data
            ELSE IF got.kind = "user" /\ ~got.user.retired THEN DictSet(data, key, got)
            ELSE IF got.kind = "MultipleObjectsReturned" THEN data
            ELSE DictSet(data, key, NoneValue)
    IN  IF key \notin DOMAIN data /\ got.kind = "MultipleObjectsReturned"
            THEN [outcome |-> got, data |-> data, queried |-> TRUE]
        ELSE [outcome |-> IF data1[key] = NoneValue THEN Raised("DoesNotExist")
                          ELSE data1[key],
              data |-> data1,
              queried |-> key \notin DOMAIN data]

MaxLookups == 3

\* The rows the table is filled from: usernames are unique, addresses are not.
UserRows ==
    { UserRow("alice", "a@x", "none"), UserRow("bob", "a@x", "none"),
      UserRow("bob", "b@x", "staff") }

UserKeys == {"alice", "bob", "a@x"}

InitLookup ==
    /\ p = {} /\ g = {} /\ g2 = {}
    /\ req = <<>> /\ res = <<>>
    /\ m_in = [fn |-> "none", obj |-> <<>>, pat |-> <<>>]
    /\ m_ret = <<>>
    /\ InitStore
    /\ users \in {{}, {UserRow("alice", "a@x", "none")}}
    /\ scopes = {}
    /\ settings = [SERVICE_VARIANT |-> "lms", course_creators |-> FALSE]
    /\ cache = [t \in Threads |-> <<>>]
    /\ lookups = <<>>

\* The number of lookups made so far.
RECURSIVE SumCalls(_)
SumCalls(keys) ==
    IF keys = {} THEN 0
    ELSE LET k == CHOOSE x \in keys : TRUE
         IN  lookups[k].calls + SumCalls(keys \ {k})

\* A thread calls get_user_by_username_or_email(key).
call_get_user(thread, key) ==
    /\ SumCalls(DOMAIN lookups) < MaxLookups
    /\ LET r == get_user_by_username_or_email(users, cache[thread], key)
           tk == <<thread, key>>
       IN  /\ cache' = [cache EXCEPT ![thread] = r.data]
           /\ m_in' = [fn |-> "get_user_by_username_or_email", thread |-> thread, key |-> key]
           /\ m_ret' = <<[outcome |-> r.outcome, queried |-> r.queried]>>
           /\ lookups' = IF tk \in DOMAIN lookups
                            THEN [lookups EXCEPT ![tk].calls = @ + 1]
                            ELSE DictSet(lookups, tk, [first |-> r.outcome, calls |-> 1])
    /\ UNCHANGED <<policyVars, callVars, storeVars, users, scopes, settings>>

\* User.objects.create(...)
orm_create_user(row) ==
    /\ \A u \in users : u.username # row.username
    /\ users' = users \cup {row}
    /\ UNCHANGED <<policyVars, callVars, matchVars, storeVars, scopes, settings, cache, lookups>>

\* user.delete()
orm_delete_user(row) ==
    /\ row \in users
    /\ users' = users \ {row}
    /\ UNCHANGED <<policyVars, callVars, matchVars, storeVars, scopes, settings, cache, lookups>>

\* UserRetirementRequest.objects.create(user=user)
orm_retire_user(row) ==
    /\ row \in users
    /\ ~row.retired
    /\ users' = (users \ {row}) \cup {[row EXCEPT !.retired = TRUE]}
    /\ UNCHANGED <<policyVars, callVars, matchVars, storeVars, scopes, settings, cache, lookups>>

NextLookup ==
    \/ \E thread \in Threads : \E key \in UserKeys : call_get_user(thread, key)
    \/ \E row \in UserRows : orm_create_user(row)
    \/ \E row \in users : orm_delete_user(row)
    \/ \E row \in users : orm_retire_user(row)

SpecLookup == InitLookup /\ [][NextLookup]_vars

\* C23: the lookup cache is per thread and sticky, misses included: a lookup
\* made for a key the thread has looked up before returns the outcome of the
\* first lookup and does not query the table; the first lookup of a thread
\* queries the table whatever other threads hold; a retired user is recorded
\* (as None) and reported as DoesNotExist.
C23_StickyPerThreadCache ==
    Returned("get_user_by_username_or_email") =>
        LET tk == <<m_in.thread, m_in.key>>
            r == m_ret[1]
        IN  /\ lookups[tk].calls >= 2 =>
                  /\ r.outcome = lookups[tk].first
                  /\ ~r.queried
            /\ lookups[tk].calls = 1 => r.queried
            /\ r.outcome.kind = "user" => ~r.outcome.user.retired
            /\ r.outcome.kind = "DoesNotExist" => cache[m_in.thread][m_in.key] = NoneValue

---------------------------------------------------------------------------
(* engine/matcher.py: check_custom_conditions                               *)
(* The key classes of openedx_authz.api.data are read as the matcher uses    *)
(* them: a namespaced key is "<namespace>^<external key>", a scope key of    *)
(* namespace "lib" is a ContentLibraryData, and get_object() gives the       *)
(* object stored for the key, or None.                                       *)

Caret == "^"

\* UserData / ActionData / ScopeData(namespaced_key=key).external_key
ExternalKey(key) == key[3]

\* isinstance(ScopeData(namespaced_key=key), ContentLibraryData)
IsContentLibrary(key) == key[1] = "lib"

\* ScopeData(namespaced_key=key).get_object(): <<object>>, or <<>> for None
get_object(table, key) ==
    IF \E o \in table : o.key = key
        THEN <<CHOOSE o \in table : o.key = key>>
        ELSE <<>>

\* What a call gives its caller: a value, or an exception.
Returns(value) == [kind |-> "return", value |-> value]
Raises(exception) == [kind |-> exception, value |-> FALSE]

\* is_studio_request()
is_studio_request(conf) == conf.SERVICE_VARIANT = "cms"

\* is_course_creator(user): get_course_creator_status(user) == "granted";
\* without the course_creators app the name is None and the call fails.
is_course_creator(conf, user) ==
    IF conf.course_creators THEN Returns(user.creator) ELSE Raises("TypeError")

\* check_custom_conditions(request_user, request_action, request_scope), for
\* the outcome found of the user lookup
check_custom_conditions(found, objects, conf, request_action, request_scope) ==
    LET scope_obj == get_object(objects, request_scope)
        user == found.user
    IN  IF found.kind = "DoesNotExist" THEN Returns(FALSE)
        ELSE IF found.kind # "user" THEN Raises(found.kind)
        ELSE IF scope_obj = <<>> THEN Returns(FALSE)
        ELSE IF user.is_staff \/ user.is_superuser THEN Returns(TRUE)
        ELSE IF IsContentLibrary(request_scope) /\ is_studio_request(conf)
                /\ ExternalKey(request_action) = "create_library"
            THEN is_course_creator(conf, user)
        ELSE IF IsContentLibrary(request_scope) /\ is_studio_request(conf)
                /\ ExternalKey(request_action) = "view_library"
            THEN IF scope_obj[1].allow_public_read
                    THEN is_course_creator(conf, user)
                    ELSE Returns(FALSE)
        ELSE Returns(FALSE)

\* The user tables, scope objects, settings and requests the matcher is run on.
UserTables ==
    { { UserRow("alice", "a@x", "staff"), UserRow("bob", "b@x", "none") },
      { UserRow("alice", "a@x", "superuser"), UserRow("bob", "b@x", "creator") },
      { [UserRow("alice", "a@x", "staff") EXCEPT !.retired = TRUE] } }

LibPublic == <<"lib", Caret, "lib:DemoX:PUB">>
LibPrivate == <<"lib", Caret, "lib:DemoX:PRIV">>
LibMissing == <<"lib", Caret, "lib:DemoX:GONE">>
CourseScope == <<"course-v1", Caret, "course-v1:DemoX+CS101+2025">>

ScopeTables ==
    { { [key |-> LibPublic, allow_public_read |-> TRUE],
        [key |-> LibPrivate, allow_public_read |-> FALSE],
        [key |-> CourseScope, allow_public_read |-> FALSE] } }

SettingsValues ==
    { [SERVICE_VARIANT |-> "cms", course_creators |-> TRUE],
      [SERVICE_VARIANT |-> "lms", course_creators |-> FALSE] }

RequestUsers == {<<"user", Caret, name>> : name \in {"alice", "bob", "carol"}}
RequestActions ==
    {<<"act", Caret, name>> : name \in {"view_library", "create_library", "delete_library"}}
RequestScopes == {LibPublic, LibPrivate, LibMissing, CourseScope}

InitConditions ==
    /\ p = {} /\ g = {} /\ g2 = {}
    /\ req = <<>> /\ res = <<>>
    /\ m_in = [fn |-> "none", obj |-> <<>>, pat |-> <<>>]
    /\ m_ret = <<>>
    /\ InitStore
    /\ users \in UserTables
    /\ scopes \in ScopeTables
    /\ settings \in SettingsValues
    /\ cache = [t \in Threads |-> <<>>]
    /\ lookups = <<>>

\* A thread evaluates the custom conditions of a request; the user is looked
\* up through the cache of the thread.
call_check_custom_conditions(thread, request_user, request_action, request_scope) ==
    LET username == ExternalKey(request_user)
        r == get_user_by_username_or_email(users, cache[thread], username)
        tk == <<thread, username>>
    IN  /\ SumCalls(DOMAIN lookups) < MaxLookups
        /\ cache' = [cache EXCEPT ![thread] = r.data]
        /\ lookups' = IF tk \in DOMAIN lookups
                         THEN [lookups EXCEPT ![tk].calls = @ + 1]
                         ELSE DictSet(lookups, tk, [first |-> r.outcome, calls |-> 1])
        /\ m_in' = [fn |-> "check_custom_conditions", thread |-> thread,
                    request_user |-> request_user, request_action |-> request_action,
                    request_scope |-> request_scope]
        /\ m_ret' = <<check_custom_conditions(r.outcome, scopes, settings,
                                              request_action, request_scope)>>
        /\ UNCHANGED <<policyVars, callVars, storeVars, users, scopes, settings>>

NextConditions ==
    \E thread \in Threads : \E request_user \in RequestUsers :
        \E request_action \in RequestActions : \E request_scope \in RequestScopes :
            call_check_custom_conditions(thread, request_user, request_action, request_scope)

SpecConditions == InitConditions /\ [][NextConditions]_vars

\* The rows of the user table a request names, by username.
Named(request_user) == {u \in users : u.username = request_user[3]}

\* C24: for every existing (not retired) user with is_staff or is_superuser
\* set, check_custom_conditions returns true, for every action and every scope.
C24_StaffFullAccess ==
    Returned("check_custom_conditions") =>
        \A u \in Named(m_in.request_user) :
            (~u.retired /\ (u.is_staff \/ u.is_superuser)) => m_ret[1] = Returns(TRUE)

\* C25: for a user who is neither staff nor superuser, check_custom_conditions
\* allows view_library on a content library with public read enabled, allows
\* create_library only to a user with granted course-creator status, and
\* returns false for every other action, for every scope that is not a content
\* library and for every user that does not exist.
C25_LibraryConditions ==
    Returned("check_custom_conditions") =>
        LET action == m_in.request_action[3]
            library == {o \in scopes : o.key = m_in.request_scope /\ o.key[1] = "lib"}
        IN  /\ \A u \in Named(m_in.request_user) :
                  (~u.retired /\ ~u.is_staff /\ ~u.is_superuser) =>
                      /\ (action = "view_library" /\ \E o \in library : o.allow_public_read)
                            => m_ret[1] = Returns(TRUE)
                      /\ (action = "create_library" /\ m_ret[1] = Returns(TRUE)) => u.creator
                      /\ action \notin {"view_library", "create_library"}
                            => m_ret[1] = Returns(FALSE)
                      /\ m_in.request_scope[1] # "lib" => m_ret[1] = Returns(FALSE)
            /\ Named(m_in.request_user) = {} => m_ret[1] = Returns(FALSE)

---------------------------------------------------------------------------
(* enforce as a function of the snapshot and the request                    *)

---------------------------------------------------------------------------
(* The two kinds of edges of relation g2                                    *)

\* Requests on the policy of ready() and of the tests: in the order of the
\* enforcement tests (subject, action, object), and in the order of the
\* add_policy calls of ready() (subject, object, action).
EdgeRequests ==
    ({UserBob, UserMaria} \X {ActManage, ActRead} \X {OrgOpenedX, Asset9, Report123})
    \cup { <<UserMaria, Delete, Report123>>,
           <<UserMaria, CourseColonCourseDemo, Delete>>,
           <<UserBob, CourseDemo, Read>>,
           <<UserMaria, Report123, Delete>> }

NextEdges ==
    \/ \E rule \in RuleCandidates : add_policy(rule)
    \/ \E grant \in GrantCandidates : add_grouping_policy(grant)
    \/ \E edge \in EdgeCandidates : add_named_grouping_policy_g2(edge)
    \/ ready
    \/ \E request \in EdgeRequests : Enforce(request)
    \/ Return

SpecEdges == Init /\ [][NextEdges]_vars

\* The edges of g2 declared as action implication: both ends are action keys;
\* the others are declared as containment.
IsActionKey(key) == StartsWith(key, <<"act", ":">>)
ImplicationEdges == {e \in g2 : IsActionKey(e[1]) /\ IsActionKey(e[2])}
ContainmentEdges == g2 \ ImplicationEdges

\* C27: the two kinds of edges of g2 are never confused: for the request held
\* and every rule, the granted action reaches the requested action only along
\* implication edges, and the rule scope reaches the object only along
\* containment edges.
C27_EdgesNotConfused ==
    Called =>
        \A rule \in p :
            /\ ActionReaches(g2, rule[2], req[2])
                  => ActionReaches(ImplicationEdges, rule[2], req[2])
            /\ ScopeReaches(g2, rule[3], req[3])
                  => ScopeReaches(ContainmentEdges, rule[3], req[3])

---------------------------------------------------------------------------
(* The load_policy command: files without a valid line, failing adds, arity *)

\* The rows the command in progress has appended to the store.
Appended == SubSeq(db, Len(cmd.before.db) + 1, Len(db))

\* The indices of the tuples the loop has been through.
Turned == 1..(cmd.i - 1)

\* The tuple has the number of value fields its kind asks for: 4 for p, 2 for
\* g and for g2.
RightArity(tuple) ==
    Len(tuple) - 1 >= (IF tuple[1] = PtypeP THEN 4 ELSE 2)

\* The memory the loop of the command in progress started on.
LoopStart == IF cmd.clear_existing THEN EmptyMemory ELSE cmd.before.mem

\* C28: when the file yields no valid policy line the command returns at once:
\* it makes no clear, no add and no reload, and memory, store and channel are
\* what they were, with or without --clear-existing.
C28_NoValidLineChangesNothing ==
    (cmd.pc # "idle" /\ cmd.policies = <<>>) =>
        /\ cmd.pc = "done"
        /\ cmd.i = 1 /\ cmd.loaded_count = 0 /\ cmd.failed = {}
        /\ Memory(p, g, g2) = cmd.before.mem
        /\ db = cmd.before.db
        /\ chan <= cmd.before.sent

\* C28 witness: the command was run with --clear-existing, and not as a dry
\* run, on a file without a valid line, while store and memory held a policy.
C28_Witness ==
    /\ cmd.pc = "done"
    /\ cmd.policies = <<>>
    /\ cmd.clear_existing /\ ~cmd.dry_run
    /\ db # <<>>
    /\ p # {} /\ g # {}

\* C29: a failing add is isolated and not rolled back: once the command that
\* met a failure has returned, the loop has been through every tuple of the
\* file, the rows the store held before and the rows of the adds that returned
\* are in the store, the count leaves out the skipped and the failed tuples,
\* and the enforcer has been reloaded from the store.
C29_FailureIsolated ==
    (cmd.pc # "idle" /\ cmd.failed # {}) =>
        /\ cmd.pc \in {"add", "reload", "done"}
        /\ cmd.loaded_count =
              Cardinality({i \in Turned : RightArity(cmd.policies[i]) /\ i \notin cmd.failed})
        /\ Len(db) >= Len(cmd.before.db)
        /\ SubSeq(db, 1, Len(cmd.before.db)) = cmd.before.db
        /\ \A i \in Turned \ cmd.failed :
              (RightArity(cmd.policies[i]) /\ ~MemHas(LoopStart, cmd.policies[i]))
                  => cmd.policies[i] \in Range(Appended)
        /\ cmd.pc \in {"reload", "done"} => cmd.i = Len(cmd.policies) + 1
        /\ cmd.pc = "done" => Memory(p, g, g2) = StoredModel(NoFilter)

\* C29 witness: the add of the first tuple of a file of two rules failed, the
\* second rule was added and counted, and the command has reloaded and
\* returned.
C29_Witness ==
    /\ cmd.pc = "done"
    /\ cmd.policies = <<RuleAllow, RuleDeny>>
    /\ cmd.failed = {1}
    /\ cmd.loaded_count = 1
    /\ RuleDeny \in Range(db) /\ RuleAllow \notin Range(db)
    /\ p = {Tail(RuleDeny)}

\* C30: tuples of wrong arity are never stored and each kind goes to its own
\* relation: every row the command appends is a tuple of the file of the right
\* arity; once the loop is over, every tuple of the right arity whose add
\* returned is held, once, in the relation of its kind, every tuple the
\* relations have gained comes from a tuple of that kind, and no tuple is
\* appended twice when no add failed; the count is the number of tuples of the
\* right arity whose add returned.
C30_ArityAndKind ==
    (cmd.pc \in {"add", "reload"}) =>
        LET added == {i \in Turned : RightArity(cmd.policies[i]) /\ i \notin cmd.failed}
            gained(kind, now, start) ==
                \A t \in now \ start :
                    \E i \in added : cmd.policies[i] = <<kind>> \o t
        IN  /\ \A k \in 1..Len(Appended) :
                  RightArity(Appended[k]) /\ Appended[k] \in Range(cmd.policies)
            /\ cmd.loaded_count = Cardinality(added)
            /\ \A i \in added :
                  LET t == cmd.policies[i]
                  IN  /\ t[1] = PtypeP => Tail(t) \in p
                      /\ t[1] = PtypeG => Tail(t) \in g
                      /\ t[1] = PtypeG2 => Tail(t) \in g2
            /\ gained(PtypeP, p, LoopStart.p)
            /\ gained(PtypeG, g, LoopStart.g)
            /\ gained(PtypeG2, g2, LoopStart.g2)
            /\ cmd.failed = {} =>
                  \A k, l \in 1..Len(Appended) : Appended[k] = Appended[l] => k = l

\* C30 witness: the loop is over on the file with an edge, a grant that lacks
\* a field and the edge again: one row appended, held as a hierarchy edge, two
\* tuples counted.
C30_Witness ==
    /\ cmd.pc = "reload"
    /\ cmd.policies = <<EdgeManageRead, GrantShort, EdgeManageRead>>
    /\ cmd.failed = {}
    /\ cmd.loaded_count = 2
    /\ Appended = <<EdgeManageRead>>
    /\ Tail(EdgeManageRead) \in g2
    /\ g = cmd.before.mem.g

===========================================================================
